---- MODULE Spec2Model ----
(***************************************************************************)
(* Contribution pipeline of AutoVerif-QC (src/backend-app.py): the         *)
(* submission intake (collecte_submit and _process_single_submission), the *)
(* hash-chained submissions table, the typed detail tables, the odometer   *)
(* tracker and the chain verification endpoints.                           *)
(*                                                                         *)
(* The database is PostgreSQL at READ COMMITTED: what a transaction writes *)
(* is visible to other connections only after its commit; SERIAL ids come  *)
(* from a sequence that is never rolled back.  Each request runs on its    *)
(* own worker and opens its own connections (get_db).                      *)
(*                                                                         *)
(* SHA-256 is modelled as collision free: a hash is the tuple of the       *)
(* canonical payload it was computed from.                                 *)
(***************************************************************************)
EXTENDS Integers, Sequences, FiniteSets, TLC

VARIABLES
    profile,      \* the deployment and the requests clients send in this run
    submissions,  \* committed rows of table submissions
    details,      \* committed rows of the 14 detail tables
    readings,     \* committed rows of table odometer_readings
    vehicles,     \* committed rows of table vehicles
    audit,        \* committed rows of table audit_log
    batches,      \* committed rows of table import_batches
    seq,          \* next value of submissions_id_seq
    odoSeq,       \* next value of odometer_readings_id_seq
    vehSeq,       \* next value of vehicles_id_seq
    audSeq,       \* next value of audit_log_id_seq
    batchSeq,     \* next value of import_batches_id_seq
    decoderCalls, \* the VINs decode_vin was called on
    clock,        \* number of clock readings taken so far
    pc,           \* per worker: where its request handler stands
    ctx,          \* per worker: the handler's local variables
    result,       \* per worker: what the last finished request returned
    tampered      \* <<>> or <<[id, before]>>: an out-of-band edit of a row

vars == <<profile, submissions, details, readings, vehicles, audit, batches,
          seq, odoSeq, vehSeq, audSeq, batchSeq, decoderCalls, clock,
          pc, ctx, result, tampered>>

(***************************************************************************)
(* Bounds                                                                  *)
(***************************************************************************)
MaxSubs == 3          \* submission ids the sequence hands out in one run
MaxRows == 3          \* rows of one batch
MaxBatches == 1       \* batches the endpoints accept in one run

Workers == {"w1", "w2"}

(***************************************************************************)
(* JSON values of the request body.  A value is a tagged pair; t is one of *)
(* none (key absent or null), int, str (a non-empty string that is neither *)
(* a number nor a date), date (a string PostgreSQL parses as a DATE, v is  *)
(* the day), efloat (a float Python prints in exponent form: 1e16 is       *)
(* [efloat, 16]) and bigint (the integer 10^v).                            *)
(***************************************************************************)
JNone == [t |-> "none", v |-> 0]
JInt(n) == [t |-> "int", v |-> n]
JStr == [t |-> "str", v |-> 0]
JDate(d) == [t |-> "date", v |-> d]
JEFloat(e) == [t |-> "efloat", v |-> e]
JBigInt(e) == [t |-> "bigint", v |-> e]

\* Python truthiness of a JSON value, as used by "x or None" and "if x".
Truthy(x) == /\ x.t # "none"
             /\ ~(x.t = "int" /\ x.v = 0)

\* a or b
PyOr(a, b) == IF Truthy(a) THEN a ELSE b

None == <<>>
Some(x) == <<x>>

(***************************************************************************)
(* VINs are sequences of characters.                                       *)
(***************************************************************************)
VinChars == {"A", "B", "C", "D", "E", "F", "G", "H", "J", "K", "L", "M", "N",
             "P", "R", "S", "T", "U", "V", "W", "X", "Y", "Z",
             "0", "1", "2", "3", "4", "5", "6", "7", "8", "9"}

VinLength == 17

\* The length test alone.
validate_vin_length_only(vin) == Len(vin) = VinLength

validate_vin(vin) ==
    /\ Len(vin) = VinLength
    /\ \A i \in 1..Len(vin) : vin[i] \in VinChars

VinA == <<"2","H","G","F","C","2","F","5","9","M","H","5","2","8","4","9","1">>
VinB == <<"1","F","T","F","W","1","E","T","5","E","K","E","1","2","3","4","5">>
VinShort == <<"2","H","G","F","C","2","F","5","9","M","H","5","2","8","4","9">>
VinBadChar == <<"2","H","G","F","C","2","F","5","9","M","H","5","2","8","4","9","I">>
\* VinA as a client may send it: lower case, with a leading blank.
VinUntidy == <<" ","2","h","g","f","c","2","f","5","9","m","h","5","2","8","4","9","1">>

LowerCase == <<"a","b","c","d","e","f","g","h","i","j","k","l","m",
               "n","o","p","q","r","s","t","u","v","w","x","y","z">>
UpperCase == <<"A","B","C","D","E","F","G","H","I","J","K","L","M",
               "N","O","P","Q","R","S","T","U","V","W","X","Y","Z">>

\* str.upper(), character by character.
UpperOf ==
    [c \in VinChars \cup {"I", "O", "Q", " "} \cup {LowerCase[k] : k \in 1..26} |->
        IF \E k \in 1..26 : LowerCase[k] = c
        THEN UpperCase[CHOOSE k \in 1..26 : LowerCase[k] = c]
        ELSE c]

upper(s) == [i \in 1..Len(s) |-> UpperOf[s[i]]]

\* str.strip(): lead and trail count the blanks at either end.
strip(s) ==
    IF \A i \in 1..Len(s) : s[i] = " " THEN <<>>
    ELSE LET lead == CHOOSE n \in 0..Len(s) :
                        /\ \A j \in 1..n : s[j] = " "
                        /\ s[n + 1] # " "
             trail == CHOOSE n \in 0..Len(s) :
                        /\ \A j \in 1..n : s[Len(s) + 1 - j] = " "
                        /\ s[Len(s) - n] # " "
         IN  SubSeq(s, lead + 1, Len(s) - trail)

\* The VIN the handlers work with.
NormalizeVin(vin) == upper(strip(vin))

(***************************************************************************)
(* Report types and their detail tables                                    *)
(***************************************************************************)
valid_types == {"accident", "service", "ownership", "inspection",
                "recall_completion", "title_brand", "lien", "theft",
                "obd_diagnostic", "auction", "fleet_history", "import_export",
                "emissions", "modification"}

\* The table the INSERT of each arm of the dispatch writes to.
DetailTable(report_type) ==
    CASE report_type = "accident" -> "accident_reports"
      [] report_type = "service" -> "service_records"
      [] report_type = "ownership" -> "ownership_changes"
      [] report_type = "inspection" -> "inspections"
      [] report_type = "recall_completion" -> "recall_completions"
      [] report_type = "title_brand" -> "title_brands"
      [] report_type = "lien" -> "liens"
      [] report_type = "theft" -> "theft_records"
      [] report_type = "obd_diagnostic" -> "obd_diagnostics"
      [] report_type = "auction" -> "auction_records"
      [] report_type = "fleet_history" -> "fleet_history"
      [] report_type = "import_export" -> "import_export_records"
      [] report_type = "emissions" -> "emissions_tests"
      [] report_type = "modification" -> "vehicle_modifications"
      [] OTHER -> "none"

\* Arms that bind data.get('date') to a DATE column.
DateTypes == {"accident", "service", "ownership", "inspection",
              "recall_completion", "title_brand", "obd_diagnostic", "auction",
              "import_export", "emissions", "modification"}

\* Of those, the ones whose DATE column is NOT NULL in the schema.
DateNotNullTypes == {"accident", "service", "ownership", "inspection",
                     "recall_completion"}

\* Arms that bind data.get('odometer_km') or None to an INTEGER column.
OdometerKmTypes == {"accident", "service", "ownership", "inspection",
                    "recall_completion", "obd_diagnostic"}

\* The value x reaches an INTEGER column as "x or None": PostgreSQL rejects
\* a string that is no integer.
IntegerColumnOK(x) == ~Truthy(x) \/ x.t = "int"

\* A DATE column: NULL, or a string PostgreSQL parses as a date.
DateColumnOK(x, notnull) ==
    IF x.t = "none" THEN ~notnull ELSE x.t = "date"

\* Whether the INSERT of the arm for report_type succeeds on data.
DetailInsertOK(report_type, data) ==
    /\ report_type \in DateTypes
          => DateColumnOK(data.date, report_type \in DateNotNullTypes)
    /\ report_type \in OdometerKmTypes => IntegerColumnOK(data.odometer_km)
    /\ report_type = "import_export" => IntegerColumnOK(data.odometer_at_import)
    /\ report_type = "obd_diagnostic" => IntegerColumnOK(data.ecu_odometer_km)

\* The dispatch with the last arm missing.
insert_detail_without_last_arm(submission_id, report_type, data) ==
    IF report_type \in valid_types \ {"modification"}
    THEN {[submission_id |-> submission_id, table |-> DetailTable(report_type)]}
    ELSE {}

\* The rows the dispatch on report_type inserts for submission_id.
_insert_detail(submission_id, report_type, data) ==
    IF report_type \in valid_types
    THEN {[submission_id |-> submission_id, table |-> DetailTable(report_type)]}
    ELSE {}

(***************************************************************************)
(* The hash chain                                                          *)
(***************************************************************************)
\* What a JSONB column gives back for a number it was given: PostgreSQL
\* keeps numbers as numeric and prints them without exponent, so the float
\* Python wrote as 1e+16 is read back by json.loads as the integer 10^16.
JsonbValue(x) == IF x.t = "efloat" THEN JBigInt(x.v) ELSE x

\* json.dumps(data_snapshot) written to submissions.data_snapshot (JSONB)
\* and read back through psycopg2.
Jsonb(data_snapshot) ==
    [data_snapshot EXCEPT !.data = [k \in DOMAIN data_snapshot.data |->
                                        JsonbValue(data_snapshot.data[k])]]

\* A payload that leaves the data out.
hash_without_data(submission_id, vin, report_type, data_snapshot, previous_hash, timestamp) ==
    << submission_id,
       IF previous_hash = None THEN <<"GENESIS">> ELSE previous_hash,
       timestamp,
       report_type,
       vin >>

\* SHA-256 of the canonical payload (keys sorted: data, id, prev, ts, type,
\* vin), modelled as the payload itself.
compute_integrity_hash(submission_id, vin, report_type, data_snapshot, previous_hash, timestamp) ==
    << data_snapshot,
       submission_id,
       IF previous_hash = None THEN <<"GENESIS">> ELSE previous_hash,
       timestamp,
       report_type,
       vin >>

\* The same SELECT with ORDER BY id ASC.
SelectFirstHash(rows) ==
    LET hashed == {r \in rows : r.integrity_hash # None}
    IN  IF hashed = {} THEN None
        ELSE (CHOOSE r \in hashed : \A s \in hashed : r.id <= s.id).integrity_hash

\* SELECT integrity_hash FROM submissions WHERE integrity_hash IS NOT NULL
\* ORDER BY id DESC LIMIT 1, on the committed rows.
SelectLastHash(rows) ==
    LET hashed == {r \in rows : r.integrity_hash # None}
    IN  IF hashed = {} THEN None
        ELSE (CHOOSE r \in hashed : \A s \in hashed : s.id <= r.id).integrity_hash

\* The data_snapshot dict built by the handlers: ip is request.remote_addr,
\* which the batch endpoints pass on to _process_single_submission.
BuildSnapshot(req, now) ==
    [vin |-> req.vin, report_type |-> req.report_type,
     submitter |-> req.submitter, data |-> req.data,
     submitted_at |-> Some(now), ip |-> "remote_addr"]

\* The rows of a SELECT ... ORDER BY id ASC, as a sequence.
RECURSIVE OrderById(_)
OrderById(rows) ==
    IF rows = {} THEN <<>>
    ELSE LET first == CHOOSE r \in rows : \A s \in rows : r.id <= s.id
         IN  <<first>> \o OrderById(rows \ {first})

\* ts = snapshot_data.get('submitted_at', sub_at.isoformat())
VerifyTimestamp(row) ==
    IF row.data_snapshot.submitted_at # None
    THEN row.data_snapshot.submitted_at
    ELSE Some(row.submitted_at)

\* Verification that takes the stored hash for the recomputed one.
RecomputedAsStored(row) ==
    row.integrity_hash

\* The hash the verification endpoints recompute from a stored row.
Recomputed(row) ==
    compute_integrity_hash(row.id, row.vin, row.report_type, row.data_snapshot,
                           row.previous_hash, VerifyTimestamp(row))

\* The loop with expected_prev taken from the recomputed hash.
RECURSIVE VerifyLoopRecomputed(_, _, _)
VerifyLoopRecomputed(rows, i, expected_prev) ==
    IF i > Len(rows) THEN <<>>
    ELSE LET row == rows[i]
             chain == IF row.previous_hash # expected_prev /\ expected_prev # None
                      THEN <<[id |-> row.id, error |-> "chain_break"]>>
                      ELSE <<>>
             hash == IF Recomputed(row) # row.integrity_hash
                     THEN <<[id |-> row.id, error |-> "hash_mismatch"]>>
                     ELSE <<>>
         IN  chain \o hash \o VerifyLoopRecomputed(rows, i + 1, Recomputed(row))

\* The loop of collecte_verify over rows[i..], with the running expected_prev.
RECURSIVE VerifyLoop(_, _, _)
VerifyLoop(rows, i, expected_prev) ==
    IF i > Len(rows) THEN <<>>
    ELSE LET row == rows[i]
             chain == IF row.previous_hash # expected_prev /\ expected_prev # None
                      THEN <<[id |-> row.id, error |-> "chain_break"]>>
                      ELSE <<>>
             hash == IF Recomputed(row) # row.integrity_hash
                     THEN <<[id |-> row.id, error |-> "hash_mismatch"]>>
                     ELSE <<>>
         IN  chain \o hash \o VerifyLoop(rows, i + 1, row.integrity_hash)

\* The scan without WHERE integrity_hash IS NOT NULL.
collecte_verify_every_row(table) ==
    LET rows == OrderById(table)
        broken == VerifyLoop(rows, 1, None)
    IN  IF rows = <<>>
        THEN [valid |-> TRUE, chain_length |-> 0, broken_links |-> <<>>]
        ELSE [valid |-> Len(broken) = 0, chain_length |-> Len(rows),
              broken_links |-> broken]

\* GET /api/collecte/verify
collecte_verify(table) ==
    LET rows == OrderById({r \in table : r.integrity_hash # None})
        broken == VerifyLoop(rows, 1, None)
    IN  IF rows = <<>>
        THEN [valid |-> TRUE, chain_length |-> 0, broken_links |-> <<>>]
        ELSE [valid |-> Len(broken) = 0, chain_length |-> Len(rows),
              broken_links |-> broken]

\* GET /api/collecte/verify/<id>
collecte_verify_single(table, submission_id) ==
    LET found == {r \in table : r.id = submission_id}
    IN  IF found = {} THEN [found |-> FALSE, valid |-> FALSE]
        ELSE LET row == CHOOSE r \in found : TRUE
             IN  IF row.integrity_hash = None
                 THEN [found |-> TRUE, valid |-> FALSE]
                 ELSE [found |-> TRUE,
                       valid |-> Recomputed(row) = row.integrity_hash]

\* isinstance(snapshot, dict): a JSONB column may hold any JSON value, and
\* psycopg2 hands a JSON string back as a str, which json.loads then refuses.
IsDict(snapshot) == "data" \in DOMAIN snapshot

\* verifyAll checking each row's own hash only, never the links.
VerifyAllHashesOnly(table) ==
    LET rows == OrderById({r \in table : r.integrity_hash # None})
        bad == SelectSeq(rows, LAMBDA r : Recomputed(r) # r.integrity_hash)
        broken == [i \in 1..Len(bad) |-> [id |-> bad[i].id, error |-> "hash_mismatch"]]
    IN  IF \E r \in table : r.integrity_hash # None /\ ~IsDict(r.data_snapshot)
        THEN [code |-> 500]
        ELSE [code |-> 200,
              body |-> [valid |-> Len(broken) = 0, chain_length |-> Len(rows),
                        broken_links |-> broken]]

\* The answer of GET /api/collecte/verify: the loop raises on the first
\* scanned row whose snapshot is no object, and the handler's except turns
\* that into a 500 for the whole request.
VerifyAllResponse(table) ==
    IF \E r \in table : r.integrity_hash # None /\ ~IsDict(r.data_snapshot)
    THEN [code |-> 500]
    ELSE [code |-> 200, body |-> collecte_verify(table)]

\* The answer of GET /api/collecte/verify/<id>.
VerifyOneResponse(table, submission_id) ==
    LET found == {r \in table : r.id = submission_id}
    IN  IF found = {} THEN [code |-> 404]
        ELSE IF \E r \in found : r.integrity_hash # None /\ ~IsDict(r.data_snapshot)
        THEN [code |-> 500]
        ELSE [code |-> 200, body |-> collecte_verify_single(table, submission_id)]

\* GET /api/collecte/stats: the counts of one SELECT (submitted_by_email
\* is the submitter given at insert, which the snapshot keeps).
collecte_stats(table) ==
    [total_submissions |-> Cardinality(table),
     total_vehicles |-> Cardinality({r.vin : r \in table}),
     total_accidents |-> Cardinality({r \in table : r.report_type = "accident"}),
     total_services |-> Cardinality({r \in table : r.report_type = "service"}),
     total_contributors |->
         Cardinality({r.data_snapshot.submitter : r \in
                         {x \in table : IsDict(x.data_snapshot)}} \ {""})]

\* type_queries of collecte_lookup: the table each report type is read from.
type_queries(report_type) ==
    CASE report_type = "accident" -> "accident_reports"
      [] report_type = "service" -> "service_records"
      [] report_type = "ownership" -> "ownership_changes"
      [] report_type = "inspection" -> "inspections"
      [] report_type = "recall_completion" -> "recall_completions"
      [] report_type = "title_brand" -> "title_brands"
      [] report_type = "lien" -> "liens"
      [] report_type = "theft" -> "theft_records"
      [] report_type = "obd_diagnostic" -> "obd_diagnostics"
      [] report_type = "auction" -> "auction_records"
      [] report_type = "fleet_history" -> "fleet_history"
      [] report_type = "import_export" -> "import_export_records"
      [] report_type = "emissions" -> "emissions_tests"
      [] report_type = "modification" -> "vehicle_modifications"
      [] OTHER -> "unread"

(***************************************************************************)
(* The odometer tracker                                                    *)
(***************************************************************************)
EcuTolerance == 5000

Abs(n) == IF n < 0 THEN 0 - n ELSE n

\* SELECT odometer_km FROM odometer_readings WHERE vin = %s
\* ORDER BY reading_date DESC, id DESC LIMIT 1
SelectLatestReading(rows, vin) ==
    LET mine == {r \in rows : r.vin = vin}
        Later(a, b) == \/ a.reading_date > b.reading_date
                       \/ a.reading_date = b.reading_date /\ a.id >= b.id
    IN  IF mine = {} THEN None
        ELSE Some((CHOOSE r \in mine : \A s \in mine : Later(r, s)).odometer_km)

\* fraud_flag without the rollback test.
FraudFlagEcuOnly(prev, odometer_km, ecu_reading) ==
    Truthy(ecu_reading) /\ Abs(ecu_reading.v - odometer_km) > EcuTolerance

\* fraud_flag as track_odometer computes it from the prior reading (prev) and
\* the ECU value.
FraudFlag(prev, odometer_km, ecu_reading) ==
    \/ prev # None /\ prev[1] # 0 /\ odometer_km < prev[1]
    \/ Truthy(ecu_reading) /\ Abs(ecu_reading.v - odometer_km) > EcuTolerance

\* fraud_reason: the rollback sentence (km, prior km), then the ECU
\* sentence (ECU value, km), each present when its test fired.
FraudReason(prev, odometer_km, ecu_reading) ==
    (IF prev # None /\ prev[1] # 0 /\ odometer_km < prev[1]
     THEN <<"Rollback suspect", odometer_km, prev[1]>> ELSE <<>>)
    \o (IF Truthy(ecu_reading) /\ Abs(ecu_reading.v - odometer_km) > EcuTolerance
        THEN <<"ECU mismatch", ecu_reading.v, odometer_km>> ELSE <<>>)

(***************************************************************************)
(* Requests                                                                *)
(***************************************************************************)
NoData == [date |-> JNone, odometer_km |-> JNone, odometer_at_import |-> JNone,
           ecu_odometer_km |-> JNone, extra |-> JNone]

\* The bodies clients send, per profile.  kind tells the entry point: the
\* single endpoint (collecte_submit), one call of the per-record helper
\* (_process_single_submission), a JSON batch (collecte_batch) or a CSV
\* import (collecte_import_csv).
KindsOf(name) ==
    CASE name \in {"chain", "json", "validate", "alone"} -> {"submit", "helper"}
      [] name = "batch" -> {"batch", "csv"}
      [] name = "batchrace" -> {"submit", "batch"}
      [] name = "service" -> {"submit", "batch", "csv"}
      [] name = "envelope" -> {"batch", "csv"}
      [] name = "detect" -> {"csv"}
      [] OTHER -> {"submit"}

DataOf(name) ==
    CASE name \in {"race", "chain", "validate", "service", "audit", "legacy",
                   "chainrace"} ->
            {NoData, [NoData EXCEPT !.date = JDate(1), !.odometer_km = JInt(50000)]}
      [] name = "odo" ->
            {[NoData EXCEPT !.date = d, !.odometer_km = k, !.ecu_odometer_km = e] :
                d \in {JNone, JDate(1), JStr},
                k \in {JInt(30000), JInt(50000)},
                e \in {JNone, JInt(0), JInt(55000)}}
            \cup {[NoData EXCEPT !.odometer_km = k] : k \in {JInt(0), JInt(-5), JStr}}
      [] name = "alone" ->
            {NoData, [NoData EXCEPT !.odometer_km = JStr]}
            \cup {[NoData EXCEPT !.date = JDate(1), !.odometer_km = k] :
                     k \in {JInt(30000), JInt(50000)}}
      [] name = "odorace" ->
            {[NoData EXCEPT !.date = JDate(1), !.odometer_km = k] :
                k \in {JInt(30000), JInt(50000)}}
      [] name = "json" ->
            {[NoData EXCEPT !.date = JDate(1), !.odometer_km = JInt(50000),
                            !.extra = x] :
                x \in {JNone, JInt(7), JEFloat(16)}}
      [] OTHER -> {NoData}

VinsOf(name) ==
    CASE name = "chain" -> {VinA, VinShort, VinBadChar}
      [] name = "validate" -> {VinA, VinB, VinShort, VinBadChar, VinUntidy}
      [] name = "legacy" -> {VinA, VinB}
      [] name = "alone" -> {VinA, VinB, VinShort, VinUntidy}
      [] OTHER -> {VinA}

TypesOf(name, rtypes) ==
    IF name \in {"chain", "validate", "alone"} THEN rtypes \cup {"unknown"}
    ELSE rtypes

\* The cells of a CSV row besides vin and report_type; a row given without
\* them has these columns empty.
NoCells == [severity |-> "", impact_point |-> "", airbag_deployed |-> "",
            service_type |-> "", facility_name |-> "", cost |-> "",
            previous_owner_type |-> "", new_owner_type |-> "", sale_price |-> "",
            result |-> "", recall_number |-> "", date |-> "x",
            odometer_km |-> "x"]

\* str.strip() and str.lower() on the cell values the model uses.
StrStrip(v) ==
    CASE v = " " -> ""
      [] v = " accident " -> "accident"
      [] OTHER -> v

StrLower(v) ==
    CASE v = "Service" -> "service"
      [] v = "Pass" -> "pass"
      [] OTHER -> v

\* row = {k.lower().strip(): v.strip() if v else '' ...}: the cells of a
\* CSV row as the loop reads them, report_type included.
NormalizedRow(row) ==
    LET cells == IF "cells" \in DOMAIN row THEN row.cells ELSE NoCells
    IN  [k \in DOMAIN cells |-> StrStrip(cells[k])]
            @@ [report_type |-> StrStrip(row.report_type)]

\* The heuristic with the service rule tried before the accident rule.
auto_detect_service_first(row) ==
    IF row.report_type # "" THEN StrLower(StrStrip(row.report_type))
    ELSE IF row.service_type # "" \/ (row.facility_name # "" /\ row.cost # "")
    THEN "service"
    ELSE IF row.severity # "" \/ row.impact_point # "" \/ row.airbag_deployed # ""
    THEN "accident"
    ELSE IF row.previous_owner_type # "" \/ row.new_owner_type # ""
            \/ row.sale_price # ""
    THEN "ownership"
    ELSE IF row.result # "" /\ row.result \in {"pass", "fail"} THEN "inspection"
    ELSE IF row.recall_number # "" THEN "recall_completion"
    ELSE IF row.date # "" /\ row.odometer_km # "" THEN "service"
    ELSE "service"

\* _auto_detect_report_type on a normalized row.
_auto_detect_report_type(row) ==
    IF row.report_type # "" THEN StrLower(StrStrip(row.report_type))
    ELSE IF row.severity # "" \/ row.impact_point # "" \/ row.airbag_deployed # ""
    THEN "accident"
    ELSE IF row.service_type # "" \/ (row.facility_name # "" /\ row.cost # "")
    THEN "service"
    ELSE IF row.previous_owner_type # "" \/ row.new_owner_type # ""
            \/ row.sale_price # ""
    THEN "ownership"
    ELSE IF row.result # "" /\ row.result \in {"pass", "fail"} THEN "inspection"
    ELSE IF row.recall_number # "" THEN "recall_completion"
    ELSE IF row.date # "" /\ row.odometer_km # "" THEN "service"
    ELSE "service"

\* The report_type the loop of an endpoint passes on for a record: detected
\* for a CSV row, rec.get('report_type') for a JSON record.
RowReportType(kind, row) ==
    IF kind = "csv" THEN _auto_detect_report_type(NormalizedRow(row))
    ELSE row.report_type

\* CSV rows for the detection of the report type: an explicit report_type
\* in several spellings, each column alone, and pairs of columns that fall
\* under different rules.  data is what _csv_row_to_data keeps of the row.
DetectRows ==
    LET Row(report_type, cells) ==
            [vin |-> VinA, report_type |-> report_type,
             data |-> [NoData EXCEPT !.date = JDate(1),
                                     !.odometer_km = JInt(50000)],
             cells |-> cells]
        alone == {[NoCells EXCEPT ![k] = "x"] :
                     k \in {"severity", "impact_point", "airbag_deployed",
                            "service_type", "facility_name", "cost",
                            "previous_owner_type", "new_owner_type",
                            "sale_price", "recall_number"}}
        results == {[NoCells EXCEPT !.result = v] :
                       v \in {"pass", "fail", "Pass", "other"}}
        pairs == {[NoCells EXCEPT !.severity = "x", !.service_type = "x"],
                  [NoCells EXCEPT !.facility_name = "x", !.cost = "x"],
                  [NoCells EXCEPT !.service_type = "x", !.sale_price = "x"],
                  [NoCells EXCEPT !.sale_price = "x", !.result = "pass"],
                  [NoCells EXCEPT !.result = "fail", !.recall_number = "x"],
                  [NoCells EXCEPT !.airbag_deployed = "x", !.recall_number = "x"],
                  [NoCells EXCEPT !.severity = " ", !.recall_number = "x"]}
    IN  {Row(t, c) : t \in {" ", "Service", "accident", " accident ", "bogus"},
                     c \in {NoCells, [NoCells EXCEPT !.severity = "x"]}}
        \cup {Row("", c) : c \in {NoCells} \cup alone \cup results \cup pairs}

\* The records of a batch: one that goes through, one whose VIN is malformed
\* (a CSV row with an empty vin cell, a JSON record with an illegal
\* character) and one whose detail INSERT fails (an accident without date).
RowsOf(name, kind) ==
    LET good == [vin |-> VinA, report_type |-> "service",
                 data |-> [NoData EXCEPT !.date = JDate(1),
                                         !.odometer_km = JInt(50000)]]
        badvin == [vin |-> IF kind = "csv" THEN <<>> ELSE VinBadChar,
                   report_type |-> "service", data |-> NoData]
        nodate == [vin |-> VinA, report_type |-> "accident", data |-> NoData]
    IN  IF name # "batch" THEN {good}
        ELSE IF kind = "csv" THEN {good, badvin}
        ELSE {good, badvin, nodate}

\* The limits of the batch endpoints: the bytes of an uploaded CSV file
\* (2 * 1024 * 1024), its rows, and the records of a JSON batch.
MaxUploadBytes == 2097152
MaxCsvRows == 500
MaxBatchRecords == 100

\* What a batch request carries besides its rows: whether the file (CSV) or
\* a non-empty JSON body is there, the bytes of the file and whether its
\* header has a vin column.
WellFormedEnvelope == [present |-> TRUE, bytes |-> 0, header |-> TRUE]

EnvelopesOf(name, kind, rows) ==
    IF name # "envelope" THEN {WellFormedEnvelope}
    ELSE IF kind = "csv"
    THEN {e \in [present : BOOLEAN,
                 bytes : {MaxUploadBytes, MaxUploadBytes + 1},
                 header : BOOLEAN] :
             ~e.present => rows = <<>> /\ e.bytes = MaxUploadBytes /\ e.header}
    ELSE {e \in [present : BOOLEAN, bytes : {0}, header : {TRUE}] :
             ~e.present => rows = <<>>}

\* The row limit read as >=.
EnvelopeCheckOffByOne(kind, envelope, rows) ==
    IF kind = "csv"
    THEN IF ~envelope.present THEN "no_file"
         ELSE IF envelope.bytes > MaxUploadBytes THEN "file_too_large"
         ELSE IF rows = <<>> THEN "empty_batch"
         ELSE IF Len(rows) >= MaxCsvRows THEN "too_many_rows"
         ELSE IF ~envelope.header THEN "no_vin_column"
         ELSE "ok"
    ELSE IF ~envelope.present THEN "no_body"
         ELSE IF rows = <<>> THEN "empty_batch"
         ELSE IF Len(rows) >= MaxBatchRecords THEN "too_many_rows"
         ELSE "ok"

\* The checks of collecte_import_csv and collecte_batch before the store,
\* in the order the handlers make them.
EnvelopeCheck(kind, envelope, rows) ==
    IF kind = "csv"
    THEN IF ~envelope.present THEN "no_file"
         ELSE IF envelope.bytes > MaxUploadBytes THEN "file_too_large"
         ELSE IF rows = <<>> THEN "empty_batch"
         ELSE IF Len(rows) > MaxCsvRows THEN "too_many_rows"
         ELSE IF ~envelope.header THEN "no_vin_column"
         ELSE "ok"
    ELSE IF ~envelope.present THEN "no_body"
         ELSE IF rows = <<>> THEN "empty_batch"
         ELSE IF Len(rows) > MaxBatchRecords THEN "too_many_rows"
         ELSE "ok"

\* The sequences over rows of length 0..n.
RECURSIVE RowSeqs(_, _)
RowSeqs(rows, n) ==
    IF n = 0 THEN {<<>>}
    ELSE LET shorter == RowSeqs(rows, n - 1)
         IN  shorter \cup {Append(s, r) : s \in {t \in shorter : Len(t) = n - 1},
                                          r \in rows}

\* The row sequences of the batches of a profile: all short ones, or, to
\* reach the limits, no row, one row, the limit and one more.
RowSeqsOf(name, kind) ==
    IF name = "envelope"
    THEN LET limit == IF kind = "csv" THEN MaxCsvRows ELSE MaxBatchRecords
             good == [vin |-> VinA, report_type |-> "service",
                      data |-> [NoData EXCEPT !.date = JDate(1),
                                              !.odometer_km = JInt(50000)]]
             badvin == [vin |-> IF kind = "csv" THEN <<>> ELSE VinBadChar,
                        report_type |-> "service", data |-> NoData]
         IN  {[i \in 1..n |-> badvin] : n \in {0, 1, limit, limit + 1}}
             \cup {<<good>>}
    ELSE IF name = "detect" THEN {<<r>> : r \in DetectRows}
    ELSE RowSeqs(RowsOf(name, kind), profile.maxrows)

Requests ==
    [kind : KindsOf(profile.name) \cap {"submit", "helper"},
     vin : VinsOf(profile.name),
     report_type : TypesOf(profile.name, profile.rtypes),
     submitter : {"A"},
     data : DataOf(profile.name),
     rows : {<<>>}]
    \cup UNION {[kind : {k}, vin : {<<>>}, report_type : {""}, submitter : {"A"},
                 data : {NoData},
                 rows : RowSeqsOf(profile.name, k)] :
                   k \in KindsOf(profile.name) \cap {"batch", "csv"}}

(***************************************************************************)
(* Workers                                                                 *)
(***************************************************************************)
IdleReq == [kind |-> "submit", vin |-> <<>>, report_type |-> "", submitter |-> "",
            data |-> NoData, rows |-> <<>>]

\* The locals of a batch handler: the request, the loop index and the lists.
NoBatch == [active |-> FALSE, id |-> 0, request |-> IdleReq, i |-> 0,
            results |-> <<>>, errors |-> <<>>]

IdleCtx == [req |-> IdleReq, batch |-> NoBatch, previous_hash |-> None, now |-> 0,
            txstart |-> 0, submission_id |-> 0, integrity_hash |-> None,
            odometer_km |-> 0, prev |-> None, decoded |-> FALSE,
            body_vin |-> <<>>, subs |-> {}, records |-> {},
            envelope |-> WellFormedEnvelope]

NoResult == [status |-> "none", error |-> "", submission_id |-> 0,
             integrity_hash |-> None, batch |-> None, report |-> None]

Failed(error, submission_id) ==
    [status |-> "error", error |-> error, submission_id |-> submission_id,
     integrity_hash |-> None, batch |-> None, report |-> None]

Quiescent == \A p \in profile.workers : pc[p] \in {"idle", "done"}

InitStore ==
    /\ submissions = {}
    /\ details = {}
    /\ readings = {}
    /\ vehicles = {}
    /\ audit = {}
    /\ batches = {}
    /\ seq = 1
    /\ odoSeq = 1
    /\ vehSeq = 1
    /\ audSeq = 1
    /\ batchSeq = 1
    /\ decoderCalls = {}
    /\ clock = 0
    /\ pc = [p \in Workers |-> "idle"]
    /\ ctx = [p \in Workers |-> IdleCtx]
    /\ result = [p \in Workers |-> NoResult]
    /\ tampered = None

\* The checks both entry points make before touching the store: the VIN
\* format first, then the report type.
Validate(req) ==
    IF ~validate_vin(req.vin) THEN "invalid_vin"
    ELSE IF req.report_type \notin valid_types THEN "invalid_type"
    ELSE "ok"

\* enumerate(rows): the record of the i-th turn of the loop.
RowAtReversed(rows, i) == rows[Len(rows) + 1 - i]

RowAt(rows, i) == rows[i]

\* The bookkeeping without the errors list.
RecordRowDroppingErrors(batch, res) ==
    LET row == RowAt(batch.request.rows, batch.i)
    IN  IF res.status = "ok"
        THEN [batch EXCEPT !.i = batch.i + 1,
                           !.results = Append(batch.results,
                               [index |-> batch.i, vin |-> row.vin,
                                type |-> RowReportType(batch.request.kind, row),
                                submission_id |-> res.submission_id])]
        ELSE [batch EXCEPT !.i = batch.i + 1]

\* The loop body's bookkeeping after record batch.i: a success goes to
\* results, a failure to errors. index is the position of the record in
\* the input (reported as i by the JSON batch and as i + 2 by the CSV one).
RecordRow(batch, res) ==
    LET row == RowAt(batch.request.rows, batch.i)
    IN  IF res.status = "ok"
        THEN [batch EXCEPT !.i = batch.i + 1,
                           !.results = Append(batch.results,
                               [index |-> batch.i, vin |-> row.vin,
                                type |-> RowReportType(batch.request.kind, row),
                                submission_id |-> res.submission_id])]
        ELSE [batch EXCEPT !.i = batch.i + 1,
                           !.errors = Append(batch.errors,
                               [index |-> batch.i, vin |-> row.vin,
                                error |-> res.error])]

\* The handler returns res: the single endpoint answers the client, the
\* helper hands res to the loop of its batch.
Finish(p, res) ==
    IF ctx[p].batch.active
    THEN /\ ctx' = [ctx EXCEPT ![p] =
                      [IdleCtx EXCEPT !.batch = RecordRow(ctx[p].batch, res)]]
         /\ pc' = [pc EXCEPT ![p] = "row"]
         /\ UNCHANGED result
    ELSE /\ result' = [result EXCEPT ![p] = res]
         /\ pc' = [pc EXCEPT ![p] = "done"]
         /\ ctx' = [ctx EXCEPT ![p] = IdleCtx]

\* An exception no handler catches: the request ends with a 500, whatever
\* loop it was in.
Abort(p) ==
    /\ result' = [result EXCEPT ![p] = Failed("unhandled_exception", 0)]
    /\ pc' = [pc EXCEPT ![p] = "done"]
    /\ ctx' = [ctx EXCEPT ![p] = IdleCtx]

\* log_audit: one row of audit_log, as a set.
AuditRow(id, action, target_table, target_id, payload) ==
    {[id |-> id, action |-> action, target_table |-> target_table,
      target_id |-> target_id, details |-> payload]}

\* The endpoints worker p serves: in the batch race one worker takes the
\* batches and the other the single submits.
EntryPoints(name, p) ==
    CASE name = "batchrace" -> IF p = "w1" THEN {"batch"} ELSE {"submit"}
      [] name = "service" -> IF p = "w1" THEN {"submit", "batch", "csv"} ELSE {}
      [] OTHER -> {"submit", "helper", "batch", "csv"}

\* The read endpoints worker p serves.
ReadPoints(name, p) ==
    CASE name = "service" ->
            IF p = "w2" THEN {"verify", "verify_one", "lookup", "stats"} ELSE {}
      [] name = "audit" -> {"verify", "verify_one"}
      [] OTHER -> {}

\* What the handler has read of the body when it rejects it: the vin, and
\* the report_type once the vin has passed; submitter and data are read
\* after both checks.
LocalsAtReject(req) ==
    IF Validate(req) = "invalid_vin"
    THEN [IdleReq EXCEPT !.kind = req.kind, !.vin = req.vin]
    ELSE [IdleReq EXCEPT !.kind = req.kind, !.vin = req.vin,
                         !.report_type = req.report_type]

\* The handler up to the store: the envelope checks of the batch endpoints,
\* the VIN and type validation of the single ones.
Begin(p) ==
    /\ pc[p] \in {"idle", "done"}
    /\ seq <= profile.maxsubs
    /\ \E body \in Requests :
        LET req == [body EXCEPT !.vin = NormalizeVin(body.vin)]
        IN
        /\ req.kind \in EntryPoints(profile.name, p)
        /\ IF req.kind \in {"batch", "csv"}
           THEN \E envelope \in EnvelopesOf(profile.name, req.kind, req.rows) :
                LET verdict == EnvelopeCheck(req.kind, envelope, req.rows)
                IN
                /\ verdict = "ok" => batchSeq <= MaxBatches
                /\ ctx' = [ctx EXCEPT ![p] = [IdleCtx EXCEPT !.req = req,
                                                             !.envelope = envelope]]
                /\ IF verdict # "ok"
                   THEN /\ result' = [result EXCEPT ![p] = Failed(verdict, 0)]
                        /\ pc' = [pc EXCEPT ![p] = "done"]
                   ELSE /\ result' = [result EXCEPT ![p] = NoResult]
                        /\ pc' = [pc EXCEPT ![p] = "batch_create"]
           ELSE IF Validate(req) # "ok"
                THEN /\ ctx' = [ctx EXCEPT ![p] =
                                  [IdleCtx EXCEPT !.req = LocalsAtReject(req),
                                                  !.body_vin = body.vin]]
                     /\ result' = [result EXCEPT ![p] = Failed(Validate(req), 0)]
                     /\ pc' = [pc EXCEPT ![p] = "done"]
                ELSE /\ ctx' = [ctx EXCEPT ![p] =
                                  [IdleCtx EXCEPT !.req = req,
                                                  !.body_vin = body.vin]]
                     /\ result' = [result EXCEPT ![p] = NoResult]
                     /\ pc' = [pc EXCEPT ![p] = "vehicle"]
    /\ UNCHANGED <<profile, submissions, details, readings, vehicles, audit,
                   batches, seq, odoSeq, vehSeq, audSeq, batchSeq, decoderCalls,
                   clock, tampered>>

DecodedAlways(vin) == TRUE

\* Whether decode_vin(vin) comes back with attributes: the decoder is an
\* external service, which knows the VINs in profile.decodable.
Decoded(vin) == vin \in profile.decodable

\* get_or_create_vehicle, first half: the SELECT by vin and, when no row is
\* found, decode_vin.  An empty decode ends the request (404, or an error
\* entry of the batch).
GetVehicle(p) ==
    /\ pc[p] = "vehicle"
    /\ LET vin == ctx[p].req.vin
       IN  IF \E v \in vehicles : v.vin = vin
           THEN /\ pc' = [pc EXCEPT ![p] = "tip"]
                /\ UNCHANGED <<ctx, result, decoderCalls>>
           ELSE /\ decoderCalls' = decoderCalls \cup {vin}
                /\ IF Decoded(vin)
                   THEN /\ pc' = [pc EXCEPT ![p] = "vehicle_insert"]
                        /\ ctx' = [ctx EXCEPT ![p].decoded = TRUE]
                        /\ UNCHANGED result
                   ELSE Finish(p, Failed("cannot_decode", 0))
    /\ UNCHANGED <<profile, submissions, details, readings, vehicles, audit,
                   batches, seq, odoSeq, vehSeq, audSeq, batchSeq, clock,
                   tampered>>

\* The INSERT on a table without the UNIQUE constraint.
InsertVehicleRowsNoUnique(rows, id, vin) == rows \cup {[id |-> id, vin |-> vin]}

\* The vehicles a committed INSERT of vin leaves: vin is UNIQUE, so the
\* statement raises when a row with that vin is there.
InsertVehicleRows(rows, id, vin) ==
    IF \E v \in rows : v.vin = vin THEN rows
    ELSE rows \cup {[id |-> id, vin |-> vin]}

\* get_or_create_vehicle, second half: INSERT INTO vehicles and commit.  The
\* call sits outside the handlers' try blocks: a unique violation is an
\* unhandled exception.  The id is taken from the sequence either way.
InsertVehicle(p) ==
    /\ pc[p] = "vehicle_insert"
    /\ vehicles' = InsertVehicleRows(vehicles, vehSeq, ctx[p].req.vin)
    /\ vehSeq' = vehSeq + 1
    /\ IF \E v \in vehicles : v.vin = ctx[p].req.vin
       THEN Abort(p)
       ELSE /\ pc' = [pc EXCEPT ![p] = "tip"]
            /\ UNCHANGED <<ctx, result>>
    /\ UNCHANGED <<profile, submissions, details, readings, audit, batches, seq,
                   odoSeq, audSeq, batchSeq, decoderCalls, clock, tampered>>

\* The tip read seeing the hash an open transaction of another worker has
\* written but not committed.
ReadTipUncommitted(p) ==
    /\ pc[p] = "tip"
    /\ LET open == {q \in profile.workers \ {p} : pc[q] \in {"detail", "commit"}}
       IN  ctx' = [ctx EXCEPT ![p].previous_hash =
                                 IF open = {} THEN SelectLastHash(submissions)
                                 ELSE ctx[CHOOSE q \in open : TRUE].integrity_hash,
                             ![p].txstart = clock,
                             ![p].now = clock + 1]
    /\ clock' = clock + 2
    /\ pc' = [pc EXCEPT ![p] = "insert"]
    /\ UNCHANGED <<profile, submissions, details, readings, vehicles, audit,
                   batches, seq, odoSeq, vehSeq, audSeq, batchSeq, decoderCalls,
                   result, tampered>>

\* get_db(); the SELECT of the chain tip (it opens the transaction, whose
\* start time is what NOW() gives the row); now = datetime.now().
ReadTip(p) ==
    /\ pc[p] = "tip"
    /\ ctx' = [ctx EXCEPT ![p].previous_hash = SelectLastHash(submissions),
                          ![p].txstart = clock,
                          ![p].now = clock + 1]
    /\ clock' = clock + 2
    /\ pc' = [pc EXCEPT ![p] = "insert"]
    /\ UNCHANGED <<profile, submissions, details, readings, vehicles, audit,
                   batches, seq, odoSeq, vehSeq, audSeq, batchSeq, decoderCalls,
                   result, tampered>>

\* INSERT INTO submissions ... RETURNING id; compute_integrity_hash;
\* UPDATE submissions SET integrity_hash.  Both statements stay private to
\* the transaction; the id is taken from the sequence for good.
InsertSubmission(p) ==
    /\ pc[p] = "insert"
    /\ LET c == ctx[p]
           h == compute_integrity_hash(seq, c.req.vin, c.req.report_type,
                                       BuildSnapshot(c.req, c.now),
                                       c.previous_hash, Some(c.now))
       IN  ctx' = [ctx EXCEPT ![p].submission_id = seq,
                              ![p].integrity_hash = h]
    /\ seq' = seq + 1
    /\ pc' = [pc EXCEPT ![p] = "detail"]
    /\ UNCHANGED <<profile, submissions, details, readings, vehicles, audit,
                   batches, odoSeq, vehSeq, audSeq, batchSeq, decoderCalls,
                   clock, result, tampered>>

\* The type-specific INSERT.  When it raises, the handler returns the error
\* without committing: the connection is dropped and the transaction with it.
InsertDetail(p) ==
    /\ pc[p] = "detail"
    /\ IF DetailInsertOK(ctx[p].req.report_type, ctx[p].req.data)
       THEN /\ pc' = [pc EXCEPT ![p] = "commit"]
            /\ UNCHANGED <<ctx, result>>
       ELSE Finish(p, Failed("server_error", ctx[p].submission_id))
    /\ UNCHANGED <<profile, submissions, details, readings, vehicles, audit,
                   batches, seq, odoSeq, vehSeq, audSeq, batchSeq, decoderCalls,
                   clock, tampered>>

\* The row as the transaction leaves it.
SubmissionRow(c) ==
    [id |-> c.submission_id, vin |-> c.req.vin, report_type |-> c.req.report_type,
     data_snapshot |-> Jsonb(BuildSnapshot(c.req, c.now)),
     previous_hash |-> c.previous_hash, integrity_hash |-> c.integrity_hash,
     submitted_at |-> c.txstart]

\* The UPDATE without its WHERE clause.
UpdateIntegrityHashOfAll(rows, submission_id, integrity_hash) ==
    {[r EXCEPT !.integrity_hash = integrity_hash] : r \in rows}

\* UPDATE submissions SET integrity_hash = %s WHERE id = %s
UpdateIntegrityHash(rows, submission_id, integrity_hash) ==
    {IF r.id = submission_id THEN [r EXCEPT !.integrity_hash = integrity_hash]
                             ELSE r : r \in rows}

\* conn.commit(): the submission row and its detail row become visible,
\* the row as the INSERT and the UPDATE of the transaction left it.
Commit(p) ==
    /\ pc[p] = "commit"
    /\ submissions' = UpdateIntegrityHash(
                          submissions \cup
                              {[SubmissionRow(ctx[p]) EXCEPT !.integrity_hash = None]},
                          ctx[p].submission_id, ctx[p].integrity_hash)
    /\ details' = details \cup _insert_detail(ctx[p].submission_id,
                                              ctx[p].req.report_type, ctx[p].req.data)
    /\ pc' = [pc EXCEPT ![p] = "odometer"]
    /\ UNCHANGED <<profile, readings, vehicles, audit, batches, seq, odoSeq,
                   vehSeq, audSeq, batchSeq, decoderCalls, clock, ctx, result,
                   tampered>>

\* track_odometer without its first test (km <= 0).
TrackOdometerAlways(p) ==
    /\ pc[p] = "odometer"
    /\ LET data == ctx[p].req.data
           odo_val == PyOr(data.odometer_km, data.odometer_at_import)
       IN  IF ~Truthy(odo_val)
           THEN /\ pc' = [pc EXCEPT ![p] = "return"]
                /\ UNCHANGED <<ctx, result>>
           ELSE IF odo_val.t # "int"
           THEN Finish(p, Failed("server_error", ctx[p].submission_id))
           ELSE /\ ctx' = [ctx EXCEPT ![p].odometer_km = odo_val.v,
                                      ![p].prev = SelectLatestReading(
                                                     readings, ctx[p].req.vin)]
                /\ pc' = [pc EXCEPT ![p] = "track_insert"]
                /\ UNCHANGED result
    /\ UNCHANGED <<profile, submissions, details, readings, vehicles, audit,
                   batches, seq, odoSeq, vehSeq, audSeq, batchSeq, decoderCalls,
                   clock, tampered>>

\* After the commit: odo_val = data.get('odometer_km') or
\* data.get('odometer_at_import'); int(odo_val) raises on a string that is
\* no integer, which the handler's except turns into an error response.
\* track_odometer returns at once when km <= 0, else reads the prior reading.
TrackOdometer(p) ==
    /\ pc[p] = "odometer"
    /\ LET data == ctx[p].req.data
           odo_val == PyOr(data.odometer_km, data.odometer_at_import)
       IN  IF ~Truthy(odo_val)
           THEN /\ pc' = [pc EXCEPT ![p] = "return"]
                /\ UNCHANGED <<ctx, result>>
           ELSE IF odo_val.t # "int"
           THEN Finish(p, Failed("server_error", ctx[p].submission_id))
           ELSE IF odo_val.v <= 0
           THEN /\ pc' = [pc EXCEPT ![p] = "return"]
                /\ UNCHANGED <<ctx, result>>
           ELSE /\ ctx' = [ctx EXCEPT ![p].odometer_km = odo_val.v,
                                      ![p].prev = SelectLatestReading(
                                                     readings, ctx[p].req.vin)]
                /\ pc' = [pc EXCEPT ![p] = "track_insert"]
                /\ UNCHANGED result
    /\ UNCHANGED <<profile, submissions, details, readings, vehicles, audit,
                   batches, seq, odoSeq, vehSeq, audSeq, batchSeq, decoderCalls,
                   clock, tampered>>

\* The reading track_odometer inserts, as a set: empty when the statement
\* (or the ECU arithmetic before it) raises, which track_odometer swallows.
OdometerRow(c, id, today) ==
    LET data == c.req.data
        ecu == data.ecu_odometer_km
        reading_date == IF Truthy(data.date) THEN data.date ELSE JDate(today)
    IN  IF \/ Truthy(ecu) /\ ecu.t # "int"
           \/ reading_date.t # "date"
        THEN {}
        ELSE {[id |-> id, vin |-> c.req.vin, submission_id |-> c.submission_id,
               reading_date |-> reading_date.v, odometer_km |-> c.odometer_km,
               ecu_reading |-> ecu,
               fraud_flag |-> FraudFlag(c.prev, c.odometer_km, ecu),
               fraud_reason |-> FraudReason(c.prev, c.odometer_km, ecu)]}

\* An alert for every reading, flagged or not.
FraudAlertsForAll(rows, id) ==
    UNION {AuditRow(id, "odometer_fraud_alert", "odometer_readings",
                    o.submission_id,
                    [vin |-> o.vin, reading |-> o.odometer_km,
                     reason |-> o.fraud_reason]) : o \in rows}

\* The odometer_fraud_alert entries log_audit writes for the readings rows.
FraudAlerts(rows, id) ==
    UNION {AuditRow(id, "odometer_fraud_alert", "odometer_readings",
                    o.submission_id,
                    [vin |-> o.vin, reading |-> o.odometer_km,
                     reason |-> o.fraud_reason]) :
             o \in {r \in rows : r.fraud_flag}}

\* track_odometer: the fraud rules, the INSERT and its commit, then the
\* audit entry of a flagged reading.
TrackInsert(p) ==
    /\ pc[p] = "track_insert"
    /\ LET rows == OdometerRow(ctx[p], odoSeq, profile.today)
           alerts == FraudAlerts(rows, audSeq)
       IN  /\ readings' = readings \cup rows
           /\ odoSeq' = IF rows = {} THEN odoSeq ELSE odoSeq + 1
           /\ audit' = audit \cup alerts
           /\ audSeq' = IF alerts = {} THEN audSeq ELSE audSeq + 1
    /\ pc' = [pc EXCEPT ![p] = "return"]
    /\ UNCHANGED <<profile, submissions, details, vehicles, batches, seq, vehSeq,
                   batchSeq, decoderCalls, clock, ctx, result, tampered>>

\* log_audit('submission_created') and the success response.
Return(p) ==
    /\ pc[p] = "return"
    /\ audit' = audit \cup AuditRow(audSeq, "submission_created", "submissions",
                                    ctx[p].submission_id,
                                    [report_type |-> ctx[p].req.report_type,
                                     vin |-> ctx[p].req.vin,
                                     hash |-> ctx[p].integrity_hash])
    /\ audSeq' = audSeq + 1
    /\ Finish(p, [status |-> "ok", error |-> "",
                  submission_id |-> ctx[p].submission_id,
                  integrity_hash |-> ctx[p].integrity_hash, batch |-> None,
                  report |-> None])
    /\ UNCHANGED <<profile, submissions, details, readings, vehicles, batches,
                   seq, odoSeq, vehSeq, batchSeq, decoderCalls, clock, tampered>>

Next ==
    \/ \E p \in profile.workers : Begin(p)
    \/ \E p \in profile.workers : GetVehicle(p)
    \/ \E p \in profile.workers : InsertVehicle(p)
    \/ \E p \in profile.workers : ReadTip(p)
    \/ \E p \in profile.workers : InsertSubmission(p)
    \/ \E p \in profile.workers : InsertDetail(p)
    \/ \E p \in profile.workers : Commit(p)
    \/ \E p \in profile.workers : TrackOdometer(p)
    \/ \E p \in profile.workers : TrackInsert(p)
    \/ \E p \in profile.workers : Return(p)

\* Two workers serving concurrent requests of one report type.
Init ==
    /\ InitStore
    /\ profile \in [name : {"race"}, workers : {Workers},
                    rtypes : {{t} : t \in valid_types}, today : {2},
                    maxsubs : {MaxSubs - 2}, maxrows : {MaxRows},
                    decodable : {{VinA}}]

Spec == Init /\ [][Next]_vars

\* Two workers serving concurrent requests of a type whose detail INSERT
\* fails without date, long enough for a failed attempt, a commit and an
\* open transaction to meet.
InitChainRace ==
    /\ InitStore
    /\ profile = [name |-> "chainrace", workers |-> Workers,
                  rtypes |-> {"accident"}, today |-> 2,
                  maxsubs |-> MaxSubs - 1, maxrows |-> MaxRows,
                  decodable |-> {VinA}]

SpecChainRace == InitChainRace /\ [][Next]_vars

\* One worker: requests are served one at a time.
InitSeq ==
    /\ InitStore
    /\ profile = [name |-> "chain", workers |-> {"w1"},
                  rtypes |-> {"service", "theft"}, today |-> 2,
                  maxsubs |-> MaxSubs, maxrows |-> MaxRows,
                  decodable |-> {VinA}]

SpecSeq == InitSeq /\ [][Next]_vars

\* A submission written before the hash columns were added to the table
\* (ALTER TABLE ... ADD COLUMN IF NOT EXISTS): the three columns are NULL;
\* a NULL data_snapshot is read by the verification endpoints as {}.
NullSnapshot == [submitted_at |-> None]

LegacyRow(id) ==
    [id |-> id, vin |-> VinA, report_type |-> "theft",
     data_snapshot |-> NullSnapshot, previous_hash |-> None,
     integrity_hash |-> None, submitted_at |-> 0]

\* One worker, on a store that holds a submission older than the chain.
InitLegacy ==
    /\ submissions = {LegacyRow(1)}
    /\ details = {[submission_id |-> 1, table |-> DetailTable("theft")]}
    /\ readings = {}
    /\ vehicles = {[id |-> 1, vin |-> VinA]}
    /\ audit = {}
    /\ batches = {}
    /\ seq = 2
    /\ odoSeq = 1
    /\ vehSeq = 2
    /\ audSeq = 1
    /\ batchSeq = 1
    /\ decoderCalls = {}
    /\ clock = 1
    /\ pc = [p \in Workers |-> "idle"]
    /\ ctx = [p \in Workers |-> IdleCtx]
    /\ result = [p \in Workers |-> NoResult]
    /\ tampered = None
    /\ profile = [name |-> "legacy", workers |-> {"w1"},
                  rtypes |-> {"service", "theft"}, today |-> 2,
                  maxsubs |-> MaxSubs + 1, maxrows |-> MaxRows,
                  decodable |-> {VinA, VinB}]

SpecLegacy == InitLegacy /\ [][Next]_vars

\* One worker, with well-formed and malformed VINs, a VIN the decoder does
\* not know (VinB) and a report type outside the list.
InitValidate ==
    /\ InitStore
    /\ profile = [name |-> "validate", workers |-> {"w1"}, rtypes |-> {"theft"},
                  today |-> 2, maxsubs |-> MaxSubs, maxrows |-> MaxRows,
                  decodable |-> {VinA}]

SpecValidate == InitValidate /\ [][Next]_vars

\* One worker, requests that carry odometer values.
InitOdo ==
    /\ InitStore
    /\ profile = [name |-> "odo", workers |-> {"w1"}, rtypes |-> {"theft"},
                  today |-> 2, maxsubs |-> MaxSubs - 1, maxrows |-> MaxRows,
                  decodable |-> {VinA}]

SpecOdo == InitOdo /\ [][Next]_vars

\* Two workers submitting odometer values for one VIN at the same time.
InitOdoRace ==
    /\ InitStore
    /\ profile = [name |-> "odorace", workers |-> Workers, rtypes |-> {"theft"},
                  today |-> 2, maxsubs |-> MaxSubs - 1, maxrows |-> MaxRows,
                  decodable |-> {VinA}]

SpecOdoRace == InitOdoRace /\ [][Next]_vars

(***************************************************************************)
(* The two intake functions run alone: with no other request in flight a   *)
(* call takes the store from one quiescent state to the next.              *)
(***************************************************************************)
\* The tables, the sequences and the clock a call works on.
Store ==
    [submissions |-> submissions, details |-> details, readings |-> readings,
     vehicles |-> vehicles, audit |-> audit, seq |-> seq, odoSeq |-> odoSeq,
     vehSeq |-> vehSeq, audSeq |-> audSeq, decoderCalls |-> decoderCalls,
     clock |-> clock]

\* get_or_create_vehicle(vin): the row found, or the one decode_vin allows
\* to insert; vehicle tells whether a vehicle comes back.
get_or_create_vehicle(store, vin) ==
    IF \E v \in store.vehicles : v.vin = vin
    THEN [store |-> store, vehicle |-> TRUE]
    ELSE LET called == [store EXCEPT !.decoderCalls = @ \cup {vin}]
         IN  IF Decoded(vin)
             THEN [store |-> [called EXCEPT
                                 !.vehicles = InsertVehicleRows(@, store.vehSeq, vin),
                                 !.vehSeq = @ + 1],
                   vehicle |-> TRUE]
             ELSE [store |-> called, vehicle |-> FALSE]

\* track_odometer(vin, odometer_km, source, submission_id, reading_date,
\* ecu_reading): nothing for km <= 0, else the prior reading, the fraud
\* rules, the INSERT and the alert of a flagged reading.
track_odometer(store, vin, odometer_km, submission_id, reading_date, ecu_reading) ==
    IF odometer_km <= 0 THEN store
    ELSE LET c == [req |-> [vin |-> vin,
                            data |-> [date |-> reading_date,
                                      ecu_odometer_km |-> ecu_reading]],
                   submission_id |-> submission_id,
                   odometer_km |-> odometer_km,
                   prev |-> SelectLatestReading(store.readings, vin)]
             rows == OdometerRow(c, store.odoSeq, profile.today)
             alerts == FraudAlerts(rows, store.audSeq)
         IN  [store EXCEPT !.readings = @ \cup rows,
                           !.odoSeq = IF rows = {} THEN @ ELSE @ + 1,
                           !.audit = @ \cup alerts,
                           !.audSeq = IF alerts = {} THEN @ ELSE @ + 1]

\* log_audit('submission_created', 'submissions', submission_id, ...)
log_submission_created(store, submission_id, report_type, vin, integrity_hash) ==
    [store EXCEPT !.audit = @ \cup AuditRow(store.audSeq, "submission_created",
                                            "submissions", submission_id,
                                            [report_type |-> report_type,
                                             vin |-> vin,
                                             hash |-> integrity_hash]),
                  !.audSeq = @ + 1]

\* The table each arm of the if/elif chain inside collecte_submit writes to.
SubmitDetailTable(report_type) ==
    CASE report_type = "accident" -> "accident_reports"
      [] report_type = "service" -> "service_records"
      [] report_type = "ownership" -> "ownership_changes"
      [] report_type = "inspection" -> "inspections"
      [] report_type = "recall_completion" -> "recall_completions"
      [] report_type = "title_brand" -> "title_brands"
      [] report_type = "lien" -> "liens"
      [] report_type = "theft" -> "theft_records"
      [] report_type = "obd_diagnostic" -> "obd_diagnostics"
      [] report_type = "auction" -> "auction_records"
      [] report_type = "fleet_history" -> "fleet_history"
      [] report_type = "import_export" -> "import_export_records"
      [] report_type = "emissions" -> "emissions_tests"
      [] report_type = "modification" -> "vehicle_modifications"
      [] OTHER -> "none"

\* POST /api/collecte/submit served alone: the store it leaves and its
\* answer (the HTTP code, and the id and hash of a success).
collecte_submit(store, body, remote_addr) ==
    LET vin == NormalizeVin(body.vin)
        report_type == body.report_type
        submitter == body.submitter
        data == body.data
        Answer400(error) == [store |-> store, code |-> 400, error |-> error,
                             submission_id |-> 0, integrity_hash |-> None]
    IN  IF ~validate_vin(vin) THEN Answer400("invalid_vin")
        ELSE IF report_type \notin valid_types THEN Answer400("invalid_type")
        ELSE
        LET got == get_or_create_vehicle(store, vin)
            s == got.store
            previous_hash == SelectLastHash(s.submissions)
            now == s.clock + 1
            data_snapshot == [vin |-> vin, report_type |-> report_type,
                              submitter |-> submitter, data |-> data,
                              submitted_at |-> Some(now), ip |-> remote_addr]
            submission_id == s.seq
            integrity_hash == compute_integrity_hash(submission_id, vin, report_type,
                                                     data_snapshot, previous_hash,
                                                     Some(now))
            row == [id |-> submission_id, vin |-> vin, report_type |-> report_type,
                    data_snapshot |-> Jsonb(data_snapshot),
                    previous_hash |-> previous_hash, integrity_hash |-> None,
                    submitted_at |-> s.clock]
            opened == [s EXCEPT !.seq = @ + 1, !.clock = @ + 2]
            committed == [opened EXCEPT
                             !.submissions = UpdateIntegrityHash(
                                 @ \cup {row}, submission_id, integrity_hash),
                             !.details = @ \cup
                                 {[submission_id |-> submission_id,
                                   table |-> SubmitDetailTable(report_type)]}]
            odo_val == PyOr(data.odometer_km, data.odometer_at_import)
            Answer500(after) == [store |-> after, code |-> 500,
                                 error |-> "server_error",
                                 submission_id |-> submission_id,
                                 integrity_hash |-> None]
        IN  IF ~got.vehicle
            THEN [store |-> s, code |-> 404, error |-> "cannot_decode",
                  submission_id |-> 0, integrity_hash |-> None]
            ELSE IF ~DetailInsertOK(report_type, data) THEN Answer500(opened)
            ELSE IF Truthy(odo_val) /\ odo_val.t # "int" THEN Answer500(committed)
            ELSE
            LET tracked == IF Truthy(odo_val)
                           THEN track_odometer(committed, vin, odo_val.v,
                                               submission_id, data.date,
                                               data.ecu_odometer_km)
                           ELSE committed
            IN  [store |-> log_submission_created(tracked, submission_id,
                                                  report_type, vin, integrity_hash),
                 code |-> 200, error |-> "",
                 submission_id |-> submission_id,
                 integrity_hash |-> integrity_hash]

\* The helper taking the vin as it is given.
HelperVinAsGiven(vin) == vin

\* vin = (vin or '').strip().upper() of the helper.
HelperVin(vin) == NormalizeVin(vin)

\* _process_single_submission(vin, report_type, submitter, data, ip_address)
\* run alone: the store it leaves and the dict it returns.
_process_single_submission(store, vin_arg, report_type, submitter, data, ip_address) ==
    LET vin == HelperVin(vin_arg)
        Refuse(error) == [store |-> store, success |-> FALSE, error |-> error,
                          submission_id |-> 0, integrity_hash |-> None]
    IN  IF ~validate_vin(vin) THEN Refuse("invalid_vin")
        ELSE IF report_type \notin valid_types THEN Refuse("invalid_type")
        ELSE
        LET got == get_or_create_vehicle(store, vin)
            s == got.store
            previous_hash == SelectLastHash(s.submissions)
            now == s.clock + 1
            data_snapshot == [vin |-> vin, report_type |-> report_type,
                              submitter |-> submitter, data |-> data,
                              submitted_at |-> Some(now), ip |-> ip_address]
            submission_id == s.seq
            integrity_hash == compute_integrity_hash(submission_id, vin, report_type,
                                                     data_snapshot, previous_hash,
                                                     Some(now))
            row == [id |-> submission_id, vin |-> vin, report_type |-> report_type,
                    data_snapshot |-> Jsonb(data_snapshot),
                    previous_hash |-> previous_hash, integrity_hash |-> None,
                    submitted_at |-> s.clock]
            opened == [s EXCEPT !.seq = @ + 1, !.clock = @ + 2]
            committed == [opened EXCEPT
                             !.submissions = UpdateIntegrityHash(
                                 @ \cup {row}, submission_id, integrity_hash),
                             !.details = @ \cup
                                 _insert_detail(submission_id, report_type, data)]
            odo_val == PyOr(data.odometer_km, data.odometer_at_import)
            Caught(after) == [store |-> after, success |-> FALSE,
                              error |-> "server_error",
                              submission_id |-> submission_id,
                              integrity_hash |-> None]
        IN  IF ~got.vehicle
            THEN [store |-> s, success |-> FALSE, error |-> "cannot_decode",
                  submission_id |-> 0, integrity_hash |-> None]
            ELSE IF ~DetailInsertOK(report_type, data) THEN Caught(opened)
            ELSE IF Truthy(odo_val) /\ odo_val.t # "int" THEN Caught(committed)
            ELSE
            LET tracked == IF Truthy(odo_val)
                           THEN track_odometer(committed, vin, odo_val.v,
                                               submission_id, data.date,
                                               data.ecu_odometer_km)
                           ELSE committed
            IN  [store |-> log_submission_created(tracked, submission_id,
                                                  report_type, vin, integrity_hash),
                 success |-> TRUE, error |-> "",
                 submission_id |-> submission_id,
                 integrity_hash |-> integrity_hash]

\* The store a call leaves becomes the state; the worker keeps the entry
\* point, the vin it was given and the answer.
Leave(p, body, store, ok, error, submission_id, integrity_hash) ==
    /\ submissions' = store.submissions
    /\ details' = store.details
    /\ readings' = store.readings
    /\ vehicles' = store.vehicles
    /\ audit' = store.audit
    /\ seq' = store.seq
    /\ odoSeq' = store.odoSeq
    /\ vehSeq' = store.vehSeq
    /\ audSeq' = store.audSeq
    /\ decoderCalls' = store.decoderCalls
    /\ clock' = store.clock
    /\ ctx' = [ctx EXCEPT ![p] = [IdleCtx EXCEPT !.req.kind = body.kind,
                                                 !.req.vin = body.vin]]
    /\ result' = [result EXCEPT ![p] =
                     [status |-> IF ok THEN "ok" ELSE "error", error |-> error,
                      submission_id |-> submission_id,
                      integrity_hash |-> integrity_hash, batch |-> None,
                      report |-> None]]
    /\ pc' = [pc EXCEPT ![p] = "done"]
    /\ UNCHANGED <<profile, batches, batchSeq, tampered>>

\* A POST /api/collecte/submit served from start to end.
ServeSubmit(p) ==
    /\ pc[p] \in {"idle", "done"}
    /\ seq <= profile.maxsubs
    /\ \E body \in Requests :
          /\ body.kind = "submit"
          /\ LET a == collecte_submit(Store, body, "remote_addr")
             IN  Leave(p, body, a.store, a.code = 200, a.error, a.submission_id,
                       a.integrity_hash)

\* One call of the helper, with the arguments and the ip the batch loops
\* pass, from start to end.
ServeHelper(p) ==
    /\ pc[p] \in {"idle", "done"}
    /\ seq <= profile.maxsubs
    /\ \E body \in Requests :
          /\ body.kind = "helper"
          /\ LET a == _process_single_submission(Store, body.vin, body.report_type,
                                                 body.submitter, body.data,
                                                 "remote_addr")
             IN  Leave(p, body, a.store, a.success, a.error, a.submission_id,
                       a.integrity_hash)

NextAlone ==
    \/ \E p \in profile.workers : ServeSubmit(p)
    \/ \E p \in profile.workers : ServeHelper(p)

\* One worker calling either function, one call at a time.
InitAlone ==
    /\ InitStore
    /\ profile = [name |-> "alone", workers |-> {"w1"},
                  rtypes |-> {"theft", "accident"}, today |-> 2,
                  maxsubs |-> MaxSubs - 1, maxrows |-> MaxRows,
                  decodable |-> {VinA}]

SpecAlone == InitAlone /\ [][NextAlone]_vars


\* One worker, requests whose data holds numbers of several kinds.
InitJson ==
    /\ InitStore
    /\ profile = [name |-> "json", workers |-> {"w1"}, rtypes |-> {"theft"},
                  today |-> 2, maxsubs |-> MaxSubs, maxrows |-> MaxRows,
                  decodable |-> {VinA}]

SpecJson == InitJson /\ [][Next]_vars

(***************************************************************************)
(* Batch ingest: collecte_batch and collecte_import_csv                    *)
(***************************************************************************)
\* INSERT INTO import_batches ... RETURNING id, committed at once.
BatchCreate(p) ==
    /\ pc[p] = "batch_create"
    /\ batches' = batches \cup
          {[id |-> batchSeq, total_rows |-> Len(ctx[p].req.rows), processed |-> 0,
            success_count |-> 0, error_count |-> 0, status |-> "processing",
            errors |-> None, submission_ids |-> None]}
    /\ batchSeq' = batchSeq + 1
    /\ ctx' = [ctx EXCEPT ![p].batch = [NoBatch EXCEPT !.active = TRUE,
                                                       !.id = batchSeq,
                                                       !.request = ctx[p].req,
                                                       !.i = 1]]
    /\ pc' = [pc EXCEPT ![p] = "row"]
    /\ UNCHANGED <<profile, submissions, details, readings, vehicles, audit, seq,
                   odoSeq, vehSeq, audSeq, decoderCalls, clock, result, tampered>>

\* The arguments the loop passes to _process_single_submission for a record.
HelperCall(request, row) ==
    [kind |-> "helper", vin |-> NormalizeVin(row.vin),
     report_type |-> RowReportType(request.kind, row),
     submitter |-> request.submitter, data |-> row.data, rows |-> <<>>]

\* One turn of the loop up to the helper's validation: a CSV row without vin
\* is an error of its own; a record the helper rejects is an error entry.
RowStart(p) ==
    /\ pc[p] = "row"
    /\ ctx[p].batch.i <= Len(ctx[p].batch.request.rows)
    /\ LET batch == ctx[p].batch
           row == RowAt(batch.request.rows, batch.i)
           req == HelperCall(batch.request, row)
       IN  IF batch.request.kind = "csv" /\ row.vin = <<>>
           THEN /\ ctx' = [ctx EXCEPT ![p].batch =
                             RecordRow(batch, Failed("missing_vin", 0))]
                /\ UNCHANGED pc
           ELSE IF Validate(req) # "ok"
           THEN /\ ctx' = [ctx EXCEPT ![p].batch =
                             RecordRow(batch, Failed(Validate(req), 0))]
                /\ UNCHANGED pc
           ELSE /\ ctx' = [ctx EXCEPT ![p].req = req]
                /\ pc' = [pc EXCEPT ![p] = "vehicle"]
    /\ UNCHANGED <<profile, submissions, details, readings, vehicles, audit,
                   batches, seq, odoSeq, vehSeq, audSeq, batchSeq, decoderCalls,
                   clock, result, tampered>>

\* The list with the id of the first success only.
SubmissionIdsFirstOnly(results) ==
    IF results = <<>> THEN <<>> ELSE <<Head(results).submission_id>>

\* The submission ids of the results list.
RECURSIVE SubmissionIds(_)
SubmissionIds(results) ==
    IF results = <<>> THEN <<>>
    ELSE <<Head(results).submission_id>> \o SubmissionIds(Tail(results))

\* The UPDATE without status = 'completed'.
CompletedBatchStillProcessing(b, batch) ==
    [b EXCEPT !.processed = Len(batch.request.rows),
              !.success_count = Len(batch.results),
              !.error_count = Len(batch.errors)]

\* The import_batches row after the UPDATE that closes the batch.
CompletedBatch(b, batch) ==
    [b EXCEPT !.processed = Len(batch.request.rows),
              !.success_count = Len(batch.results),
              !.error_count = Len(batch.errors),
              !.status = "completed",
              !.errors = IF batch.errors = <<>> THEN None ELSE Some(batch.errors),
              !.submission_ids = IF batch.results = <<>> THEN None
                                 ELSE Some(SubmissionIds(batch.results))]

\* After the loop: the UPDATE of the batch row, its audit entry and the
\* aggregate response.
BatchUpdate(p) ==
    /\ pc[p] = "row"
    /\ ctx[p].batch.i > Len(ctx[p].batch.request.rows)
    /\ LET batch == ctx[p].batch
       IN  /\ batches' = {IF b.id = batch.id THEN CompletedBatch(b, batch) ELSE b :
                             b \in batches}
           /\ audit' = audit \cup
                 AuditRow(audSeq,
                          IF batch.request.kind = "csv" THEN "csv_import"
                                                        ELSE "batch_import",
                          "import_batches", batch.id,
                          [total |-> Len(batch.request.rows),
                           success |-> Len(batch.results)])
           /\ result' = [result EXCEPT ![p] =
                 [status |-> "ok", error |-> "", submission_id |-> 0,
                  integrity_hash |-> None,
                  batch |-> Some([id |-> batch.id,
                                  total_rows |-> Len(batch.request.rows),
                                  success_count |-> Len(batch.results),
                                  error_count |-> Len(batch.errors),
                                  results |-> batch.results,
                                  errors |-> batch.errors]),
                  report |-> None]]
           /\ ctx' = [ctx EXCEPT ![p] = [IdleCtx EXCEPT !.req = batch.request]]
    /\ audSeq' = audSeq + 1
    /\ pc' = [pc EXCEPT ![p] = "done"]
    /\ UNCHANGED <<profile, submissions, details, readings, vehicles, seq, odoSeq,
                   vehSeq, batchSeq, decoderCalls, clock, tampered>>

NextBatch ==
    \/ Next
    \/ \E p \in profile.workers : BatchCreate(p)
    \/ \E p \in profile.workers : RowStart(p)
    \/ \E p \in profile.workers : BatchUpdate(p)

\* One worker serving JSON batches and CSV imports.
InitBatch ==
    /\ InitStore
    /\ profile = [name |-> "batch", workers |-> {"w1"}, rtypes |-> {"service"},
                  today |-> 2, maxsubs |-> MaxSubs, maxrows |-> MaxRows,
                  decodable |-> {VinA}]

SpecBatch == InitBatch /\ [][NextBatch]_vars

\* A batch on one worker while the other serves single submits.
InitBatchRace ==
    /\ InitStore
    /\ profile = [name |-> "batchrace", workers |-> Workers, rtypes |-> {"theft"},
                  today |-> 2, maxsubs |-> MaxSubs - 2, maxrows |-> MaxRows - 2,
                  decodable |-> {VinA}]

SpecBatchRace == InitBatchRace /\ [][NextBatch]_vars

\* One worker serving batches of every size around the limits.
InitEnvelope ==
    /\ InitStore
    /\ profile = [name |-> "envelope", workers |-> {"w1"}, rtypes |-> {"service"},
                  today |-> 2, maxsubs |-> MaxSubs, maxrows |-> MaxRows,
                  decodable |-> {VinA}]

SpecEnvelope == InitEnvelope /\ [][NextBatch]_vars

\* One worker importing CSV files of one row each.
InitDetect ==
    /\ InitStore
    /\ profile = [name |-> "detect", workers |-> {"w1"}, rtypes |-> {"service"},
                  today |-> 2, maxsubs |-> MaxSubs, maxrows |-> MaxRows,
                  decodable |-> {VinA}]

SpecDetect == InitDetect /\ [][NextBatch]_vars

(***************************************************************************)
(* The read endpoints.  Each statement of a reader sees the rows committed  *)
(* when it runs (READ COMMITTED, the default of psycopg2.connect); rows a   *)
(* writer has not committed yet are in that writer's ctx, not in the        *)
(* tables.                                                                  *)
(***************************************************************************)
\* The submissions a SELECT sees, uncommitted rows of in-flight writers
\* included.
VisibleDirty ==
    submissions \cup {SubmissionRow(ctx[p]) :
                        p \in {q \in profile.workers : pc[q] \in {"detail", "commit"}}}

\* The submissions a SELECT sees.
Visible == submissions

\* A response of a read endpoint.
Answer(p, kind, response) ==
    /\ result' = [result EXCEPT ![p] =
                    [NoResult EXCEPT !.status = "ok",
                                     !.report = Some([kind |-> kind] @@ response)]]
    /\ pc' = [pc EXCEPT ![p] = "done"]
    /\ ctx' = [ctx EXCEPT ![p] = IdleCtx]

\* GET /api/collecte/verify; scanned is the rows list the SELECT returned.
Verify(p) ==
    /\ pc[p] \in {"idle", "done"}
    /\ "verify" \in ReadPoints(profile.name, p)
    /\ Answer(p, "verify",
              [scanned |-> {r \in Visible : r.integrity_hash # None}]
                  @@ VerifyAllResponse(Visible))
    /\ UNCHANGED <<profile, submissions, details, readings, vehicles, audit,
                   batches, seq, odoSeq, vehSeq, audSeq, batchSeq, decoderCalls,
                   clock, tampered>>

\* GET /api/collecte/verify/<id>
VerifyOne(p) ==
    /\ pc[p] \in {"idle", "done"}
    /\ "verify_one" \in ReadPoints(profile.name, p)
    /\ \E id \in 1..seq :
          Answer(p, "verify_one",
                 [id |-> id] @@ VerifyOneResponse(Visible, id))
    /\ UNCHANGED <<profile, submissions, details, readings, vehicles, audit,
                   batches, seq, odoSeq, vehSeq, audSeq, batchSeq, decoderCalls,
                   clock, tampered>>

\* GET /api/collecte/stats
Stats(p) ==
    /\ pc[p] \in {"idle", "done"}
    /\ "stats" \in ReadPoints(profile.name, p)
    /\ Answer(p, "stats", [code |-> 200, body |-> collecte_stats(Visible)])
    /\ UNCHANGED <<profile, submissions, details, readings, vehicles, audit,
                   batches, seq, odoSeq, vehSeq, audSeq, batchSeq, decoderCalls,
                   clock, tampered>>

\* GET /api/collecte/lookup/<vin>, up to the SELECT of the submissions of
\* the VIN: 400 for a malformed VIN, 404 without vehicle row.
LookupSubmissions(p) ==
    /\ pc[p] \in {"idle", "done"}
    /\ "lookup" \in ReadPoints(profile.name, p)
    /\ \E raw \in {VinA, VinB, VinBadChar} :
          LET vin == NormalizeVin(raw)
          IN  IF ~validate_vin(vin)
              THEN Answer(p, "lookup", [code |-> 400, vin |-> vin])
              ELSE IF ~\E v \in vehicles : v.vin = vin
              THEN Answer(p, "lookup", [code |-> 404, vin |-> vin])
              ELSE /\ ctx' = [ctx EXCEPT ![p] =
                                [IdleCtx EXCEPT !.req.kind = "lookup",
                                                !.req.vin = vin,
                                                !.subs = {r \in Visible : r.vin = vin}]]
                   /\ pc' = [pc EXCEPT ![p] = "lookup_details"]
                   /\ result' = [result EXCEPT ![p] = NoResult]
    /\ UNCHANGED <<profile, submissions, details, readings, vehicles, audit,
                   batches, seq, odoSeq, vehSeq, audSeq, batchSeq, decoderCalls,
                   clock, tampered>>

\* The loop over subs: one SELECT per submission on the table of its type.
\* The detail tables only grow, so the queries are taken together.
LookupDetails(p) ==
    /\ pc[p] = "lookup_details"
    /\ ctx' = [ctx EXCEPT ![p].records =
                 {d \in details : \E r \in ctx[p].subs :
                                     /\ d.submission_id = r.id
                                     /\ d.table = type_queries(r.report_type)}]
    /\ pc' = [pc EXCEPT ![p] = "lookup_odometer"]
    /\ UNCHANGED <<profile, submissions, details, readings, vehicles, audit,
                   batches, seq, odoSeq, vehSeq, audSeq, batchSeq, decoderCalls,
                   clock, result, tampered>>

\* The SELECT of the odometer history and the response.
LookupOdometer(p) ==
    /\ pc[p] = "lookup_odometer"
    /\ Answer(p, "lookup",
              [code |-> 200, vin |-> ctx[p].req.vin, subs |-> ctx[p].subs,
               records |-> ctx[p].records,
               total_records |-> Cardinality(ctx[p].records),
               odometer_history |-> {o \in readings : o.vin = ctx[p].req.vin}])
    /\ UNCHANGED <<profile, submissions, details, readings, vehicles, audit,
                   batches, seq, odoSeq, vehSeq, audSeq, batchSeq, decoderCalls,
                   clock, tampered>>

NextService ==
    \/ NextBatch
    \/ \E p \in profile.workers : Verify(p)
    \/ \E p \in profile.workers : VerifyOne(p)
    \/ \E p \in profile.workers : Stats(p)
    \/ \E p \in profile.workers : LookupSubmissions(p)
    \/ \E p \in profile.workers : LookupDetails(p)
    \/ \E p \in profile.workers : LookupOdometer(p)

\* One worker writes (single submits, JSON batches, CSV imports) while the
\* other serves the read endpoints.
InitService ==
    /\ InitStore
    /\ profile = [name |-> "service", workers |-> Workers, rtypes |-> {"service"},
                  today |-> 2, maxsubs |-> MaxSubs - 1, maxrows |-> MaxRows - 2,
                  decodable |-> {VinA}]

SpecService == InitService /\ [][NextService]_vars

(***************************************************************************)
(* Interruption: the worker serving a request dies (the process is killed, *)
(* the host goes down).  What its open transaction wrote is rolled back;   *)
(* what it committed stays.  Before the INSERT of the submission the        *)
(* request has written nothing of the contribution, so the interruptions   *)
(* that matter come after it.                                              *)
(***************************************************************************)
Crash(p) ==
    /\ pc[p] \in {"detail", "commit", "odometer", "track_insert", "return"}
    /\ result' = [result EXCEPT ![p] = Failed("interrupted", ctx[p].submission_id)]
    /\ pc' = [pc EXCEPT ![p] = "done"]
    /\ ctx' = [ctx EXCEPT ![p] = IdleCtx]
    /\ UNCHANGED <<profile, submissions, details, readings, vehicles, audit,
                   batches, seq, odoSeq, vehSeq, audSeq, batchSeq, decoderCalls,
                   clock, tampered>>

NextCrash ==
    \/ Next
    \/ \E p \in profile.workers : Crash(p)

SpecCrash == InitSeq /\ [][NextCrash]_vars

(***************************************************************************)
(* Out-of-band tampering: someone with access to the store rewrites the    *)
(* data_snapshot of one committed row and leaves its hashes alone.         *)
(***************************************************************************)
TamperedSnapshots(snap) ==
    {[snap EXCEPT !.data.extra = JInt(1)],
     [snap EXCEPT !.data.odometer_km = JInt(1)],
     [snap EXCEPT !.submitted_at = None],
     [snap EXCEPT !.vin = VinB]} \ {snap}

Tamper ==
    /\ tampered = None
    /\ \E row \in submissions : \E snap \in TamperedSnapshots(row.data_snapshot) :
          /\ submissions' = (submissions \ {row})
                                \cup {[row EXCEPT !.data_snapshot = snap]}
          /\ tampered' = Some([id |-> row.id, before |-> row.data_snapshot])
    /\ UNCHANGED <<profile, details, readings, vehicles, audit, batches, seq,
                   odoSeq, vehSeq, audSeq, batchSeq, decoderCalls, clock, pc, ctx,
                   result>>

NextTamper == Next \/ Tamper

SpecTamper == InitSeq /\ [][NextTamper]_vars

\* The other things a direct access to the database can do to one row: put
\* a JSON value that is no object in data_snapshot, overwrite either hash
\* column, delete the row.
Corruptions(row) ==
    {[how |-> "snapshot", rows |-> {[row EXCEPT !.data_snapshot = JStr]}],
     [how |-> "previous_hash", rows |-> {[row EXCEPT !.previous_hash = <<"forged">>]}],
     [how |-> "previous_hash", rows |-> {[row EXCEPT !.previous_hash = None]}],
     [how |-> "integrity_hash", rows |-> {[row EXCEPT !.integrity_hash = <<"forged">>]}],
     [how |-> "delete", rows |-> {}]} \ {[how |-> "previous_hash", rows |-> {row}]}

Corrupt ==
    /\ tampered = None
    /\ \E row \in submissions : \E c \in Corruptions(row) :
          /\ submissions' = (submissions \ {row}) \cup c.rows
          /\ tampered' = Some([id |-> row.id, how |-> c.how, row |-> row])
    /\ UNCHANGED <<profile, details, readings, vehicles, audit, batches, seq,
                   odoSeq, vehSeq, audSeq, batchSeq, decoderCalls, clock, pc, ctx,
                   result>>

NextAudit ==
    \/ NextTamper
    \/ Corrupt
    \/ \E p \in profile.workers : Verify(p)
    \/ \E p \in profile.workers : VerifyOne(p)

\* One worker serving submits and the two verification endpoints, on a
\* store that somebody may alter behind the service's back.
InitAudit ==
    /\ InitStore
    /\ profile = [name |-> "audit", workers |-> {"w1"}, rtypes |-> {"theft"},
                  today |-> 2, maxsubs |-> MaxSubs, maxrows |-> MaxRows,
                  decodable |-> {VinA}]

SpecAudit == InitAudit /\ [][NextAudit]_vars

(***************************************************************************)
(* Properties                                                              *)
(***************************************************************************)
Hashed == {r \in submissions : r.integrity_hash # None}

\* The hashed row with the greatest id below row's, as a set of at most one.
Predecessor(row) ==
    {s \in Hashed : /\ s.id < row.id
                    /\ \A u \in Hashed : u.id < row.id => u.id <= s.id}

\* The hashed row with the least id above id, as a set of at most one.
Successor(id) ==
    {s \in Hashed : /\ s.id > id
                    /\ \A u \in Hashed : u.id > id => s.id <= u.id}

\* C1: with requests served one at a time, the hashed committed submissions
\* in id order form a linear chain: the first has previous_hash null, every
\* later one has the integrity_hash of the one immediately before it.
ChainLinear ==
    \A r \in Hashed :
        IF Predecessor(r) = {} THEN r.previous_hash = None
        ELSE \A s \in Predecessor(r) : r.previous_hash = s.integrity_hash

\* A chain of three ids whose middle attempt failed and left a gap.
ChainLinearWitness ==
    \E r \in Hashed : \E s \in Predecessor(r) :
        /\ s.id + 1 < r.id
        /\ r.previous_hash = s.integrity_hash
        /\ \E p \in profile.workers : result[p].status = "ok"

\* C2: no two committed submissions have the same previous_hash.
NoSharedPreviousHash ==
    \A r1 \in submissions : \A r2 \in submissions :
        r1.id # r2.id => r1.previous_hash # r2.previous_hash

\* C3: on a store reached through the service's operations alone, verifyAll
\* is valid, has no broken link and counts the hashed submissions.
VerifyAllValid ==
    LET v == collecte_verify(submissions)
    IN  /\ v.valid
        /\ v.broken_links = <<>>
        /\ v.chain_length = Cardinality(Hashed)

Restored ==
    IF tampered = None THEN submissions
    ELSE {IF r.id = tampered[1].id
          THEN [r EXCEPT !.data_snapshot = tampered[1].before] ELSE r :
          r \in submissions}

StoredHashMatchesFields ==
    \A r \in Hashed :
        /\ r.integrity_hash =
              compute_integrity_hash(r.id, r.vin, r.report_type, r.data_snapshot,
                                     r.previous_hash, r.data_snapshot.submitted_at)
        /\ collecte_verify_single(submissions, r.id).valid

\* C7: a submit that returned an error after its row was inserted left no
\* submission row and no detail row behind.
ErrorMeansRolledBack ==
    \A p \in profile.workers :
        (result[p].status = "error" /\ result[p].submission_id # 0) =>
            /\ \A r \in submissions : r.id # result[p].submission_id
            /\ \A d \in details : d.submission_id # result[p].submission_id

\* C8: every committed submission with a hash has exactly one detail row,
\* and it is in the table of the submission's report type.
DetailPerSubmission ==
    \A r \in Hashed :
        LET mine == {d \in details : d.submission_id = r.id}
        IN  /\ Cardinality(mine) = 1
            /\ \A d \in mine : d.table = type_queries(r.report_type)

\* Two workers' submissions both committed, each with its detail row.
DetailWitness ==
    /\ Cardinality(Hashed) = 2
    /\ Cardinality(details) = 2
    /\ \A p \in profile.workers : result[p].status = "ok"

\* The odometer value a stored submission carries: a positive integer under
\* odometer_km or odometer_at_import.
CarriedKm(row) ==
    LET data == row.data_snapshot.data
    IN  {x.v : x \in {y \in {data.odometer_km, data.odometer_at_import} :
                         y.t = "int" /\ y.v > 0}}

\* C9: with no request in flight, every committed submission that carries an
\* odometer value has exactly one reading with its id and that km.
ReadingPerOdometerSubmission ==
    Quiescent =>
        \A r \in submissions :
            CarriedKm(r) # {} =>
                LET mine == {o \in readings : o.submission_id = r.id}
                IN  /\ Cardinality(mine) = 1
                    /\ \A o \in mine : o.odometer_km \in CarriedKm(r)

\* The prior reading of the same VIN that is latest by (reading_date
\* descending, id descending), among the readings recorded before o.
PriorReading(o) ==
    LET before == {b \in readings : b.vin = o.vin /\ b.id < o.id}
    IN  {b \in before :
            \A c \in before : \/ b.reading_date > c.reading_date
                              \/ b.reading_date = c.reading_date /\ b.id >= c.id}

\* The rollback rule and the ECU-mismatch rule of the specification.
RollbackRule(o) == \E b \in PriorReading(o) : o.odometer_km < b.odometer_km

EcuRule(o) ==
    /\ o.ecu_reading.t = "int"
    /\ Abs(o.ecu_reading.v - o.odometer_km) > 5000

\* C10: with submissions processed one at a time, a reading is flagged if
\* and only if the rollback rule or the ECU-mismatch rule fires.
FraudFlagIffRule ==
    \A o \in readings : o.fraud_flag <=> (RollbackRule(o) \/ EcuRule(o))

\* The readings recorded for earlier submissions of row's VIN that are the
\* latest by (reading_date descending, id descending).
PriorForSubmission(row) ==
    LET before == {b \in readings : b.vin = row.vin /\ b.submission_id < row.id}
    IN  {b \in before :
            \A c \in before : \/ b.reading_date > c.reading_date
                              \/ b.reading_date = c.reading_date /\ b.id >= c.id}

\* Whether the odometer value of a stored submission triggers the rollback
\* rule or the ECU-mismatch rule of the specification.
TriggersRule(row) ==
    LET ecu == row.data_snapshot.data.ecu_odometer_km
    IN  \E km \in CarriedKm(row) :
            \/ \E b \in PriorForSubmission(row) : km < b.odometer_km
            \/ ecu.t = "int" /\ Abs(ecu.v - km) > 5000

\* C11: with no request in flight, a submission whose odometer value
\* triggers the rollback or ECU-mismatch rule is committed with its hash and
\* detail row, was answered with success, and has a flagged reading.
AdvisoryTracking ==
    Quiescent =>
        \A r \in submissions :
            TriggersRule(r) =>
                /\ r.integrity_hash # None
                /\ \E d \in details : d.submission_id = r.id
                /\ \A p \in profile.workers :
                      result[p].submission_id = r.id => result[p].status = "ok"
                /\ \E o \in readings : o.submission_id = r.id /\ o.fraud_flag

\* The odometer_fraud_alert entries written for the submission of reading o.
AlertsFor(o) ==
    {a \in audit : /\ a.action = "odometer_fraud_alert"
                   /\ a.target_id = o.submission_id}

\* C12: with no request in flight, every flagged reading has exactly one
\* odometer_fraud_alert entry for its submission, carrying the VIN, the km
\* and the reason; an unflagged reading has none.
FraudAlertPerFlaggedReading ==
    Quiescent =>
        \A o \in readings :
            IF o.fraud_flag
            THEN /\ Cardinality(AlertsFor(o)) = 1
                 /\ \A a \in AlertsFor(o) :
                       a.details = [vin |-> o.vin, reading |-> o.odometer_km,
                                    reason |-> o.fraud_reason]
                 /\ o.fraud_reason # <<>>
            ELSE AlertsFor(o) = {}

\* A rollback was flagged and alerted next to an unflagged reading.
FraudAlertWitness ==
    /\ Quiescent
    /\ \E o \in readings : /\ o.fraud_flag
                           /\ o.fraud_reason = <<"Rollback suspect", 30000, 50000>>
                           /\ Cardinality(AlertsFor(o)) = 1
    /\ \E o \in readings : ~o.fraud_flag

\* A VIN of exactly 17 characters from A-H, J-N, P, R-Z and 0-9.
WellFormedVin(vin) ==
    /\ Len(vin) = 17
    /\ \A i \in 1..Len(vin) :
          vin[i] \in {"A", "B", "C", "D", "E", "F", "G", "H", "J", "K", "L", "M",
                      "N", "P", "R", "S", "T", "U", "V", "W", "X", "Y", "Z",
                      "0", "1", "2", "3", "4", "5", "6", "7", "8", "9"}

\* A record that would go through on its own: well-formed decodable VIN, one
\* of the 14 types, a date and an integer odometer value.
ValidRow(row) ==
    /\ WellFormedVin(row.vin)
    /\ row.vin \in profile.decodable
    /\ row.report_type \in valid_types
    /\ row.data.date.t = "date"
    /\ row.data.odometer_km.t \in {"none", "int"}

\* The workers that have just answered a batch, with the request still at
\* hand.
BatchDone ==
    {p \in profile.workers : /\ pc[p] = "done"
                             /\ result[p].batch # None
                             /\ ctx[p].req.kind \in {"batch", "csv"}}

\* C13: a batch of N rows of which exactly one has a malformed VIN and the
\* others are valid yields N-1 committed submissions and exactly one error
\* entry, at the bad row, whatever its position.
BatchRowIsolated ==
    \A p \in BatchDone :
        LET rows == ctx[p].req.rows
            bad == {i \in 1..Len(rows) : ~WellFormedVin(rows[i].vin)}
            out == result[p].batch[1]
            ids == {out.results[j].submission_id : j \in 1..Len(out.results)}
        IN  (/\ Cardinality(bad) = 1
             /\ \A i \in (1..Len(rows)) \ bad : ValidRow(rows[i]))
            => /\ out.success_count = Len(rows) - 1
               /\ Len(out.results) = Len(rows) - 1
               /\ Cardinality(ids) = Len(rows) - 1
               /\ \A id \in ids : \E r \in submissions : r.id = id
               /\ out.error_count = 1
               /\ Len(out.errors) = 1
               /\ out.errors[1].index \in bad

\* A batch of three rows whose middle row has the malformed VIN.
BatchRowIsolatedWitness ==
    \E p \in BatchDone :
        LET rows == ctx[p].req.rows
        IN  /\ Len(rows) = 3
            /\ ~WellFormedVin(rows[2].vin)
            /\ ValidRow(rows[1]) /\ ValidRow(rows[3])
            /\ result[p].batch[1].success_count = 2
            /\ Cardinality(submissions) >= 2

\* C14: with no request in flight, every batch that was created has been
\* completed, with processed equal to its number of rows.
BatchCompletes ==
    Quiescent =>
        \A b \in batches : b.status = "completed" /\ b.processed = b.total_rows

ClosedTypeSet ==
    {"accident", "service", "ownership", "inspection", "recall_completion",
     "title_brand", "lien", "theft", "obd_diagnostic", "auction",
     "fleet_history", "import_export", "emissions", "modification"}

\* Worker p takes up a submit in this step.
SubmitArrives(p) ==
    /\ pc[p] \in {"idle", "done"}
    /\ <<pc'[p], ctx'[p], result'[p]>> # <<pc[p], ctx[p], result[p]>>
    /\ ctx'[p].req.kind \in {"submit", "helper"}

\* The submit of worker p ends in this step with the given error, without
\* the decoder being called and with the store as it was.
RejectedUntouched(p, error) ==
    /\ pc'[p] = "done"
    /\ result'[p].status = "error"
    /\ result'[p].error = error
    /\ UNCHANGED <<vehicles, submissions, details, readings, audit, batches,
                   decoderCalls, seq, odoSeq, vehSeq, audSeq>>

\* C16 as stated: a submit whose VIN is not exactly 17 characters from
\* [A-HJ-NPR-Z0-9] fails as invalid VIN, and one with a well-formed VIN and
\* a report_type outside the 14 fails as invalid type; the decoder is not
\* called and the store is unchanged.
InvalidInputRejectedAsSent ==
    [][\A p \in profile.workers :
          SubmitArrives(p) =>
              /\ ~WellFormedVin(ctx'[p].body_vin)
                    => RejectedUntouched(p, "invalid_vin")
              /\ (/\ WellFormedVin(ctx'[p].body_vin)
                  /\ ctx'[p].req.report_type \notin ClosedTypeSet)
                    => RejectedUntouched(p, "invalid_type")]_vars

\* C16 (amended): the same for the VIN as the handler reads it, trimmed and
\* upper-cased: a VIN that then fails the format check is rejected as
\* invalid VIN whatever the report_type, a well-formed one with a
\* report_type outside the 14 as invalid type; in both cases the decoder is
\* not called and no table changes.
InvalidInputRejected ==
    [][\A p \in profile.workers :
          SubmitArrives(p) =>
              LET vin == NormalizeVin(ctx'[p].body_vin)
              IN  /\ ~WellFormedVin(vin) => RejectedUntouched(p, "invalid_vin")
                  /\ (/\ WellFormedVin(vin)
                      /\ ctx'[p].req.report_type \notin ClosedTypeSet)
                        => RejectedUntouched(p, "invalid_type")]_vars

\* A VIN with an illegal character has just been refused while the store
\* holds earlier submissions.
InvalidInputRejectedWitness ==
    \E p \in profile.workers :
        /\ pc[p] = "done"
        /\ result[p].error = "invalid_vin"
        /\ Len(ctx[p].body_vin) = 17
        /\ ~WellFormedVin(NormalizeVin(ctx[p].body_vin))
        /\ submissions # {}

\* C17: a submit for a VIN without vehicle row that the decoder cannot
\* decode fails with cannot_decode and leaves vehicles, submissions, details
\* and the chain tip as they were; a submit for a VIN with a vehicle row
\* goes on without consulting the decoder.
CannotDecodeWritesNothing ==
    [][\A p \in profile.workers :
          (pc[p] = "vehicle" /\ pc'[p] # "vehicle") =>
              LET vin == ctx[p].req.vin
              IN  IF \E v \in vehicles : v.vin = vin
                  THEN /\ decoderCalls' = decoderCalls
                       /\ ctx'[p].decoded = FALSE
                       /\ pc'[p] = "tip"
                  ELSE vin \notin profile.decodable =>
                       /\ pc'[p] = "done"
                       /\ result'[p].status = "error"
                       /\ result'[p].error = "cannot_decode"
                       /\ UNCHANGED <<vehicles, submissions, details, readings,
                                      seq, vehSeq>>
                       /\ SelectLastHash(submissions') =
                              SelectLastHash(submissions)]_vars

\* An undecodable VIN has just been refused: the decoder was asked, no
\* vehicle row exists for it, and the chain built through an existing
\* vehicle row is still there.
CannotDecodeWitness ==
    \E p \in profile.workers :
        /\ pc[p] = "done"
        /\ result[p].error = "cannot_decode"
        /\ VinB \in decoderCalls
        /\ ~\E v \in vehicles : v.vin = VinB
        /\ \E v \in vehicles : v.vin = VinA
        /\ Cardinality(submissions) >= 2

\* C18: in every reachable state there is at most one vehicle row per VIN.
OneVehiclePerVin ==
    \A v1 \in vehicles : \A v2 \in vehicles : v1.vin = v2.vin => v1.id = v2.id

\* Two first sightings of VinA ran into each other: a second INSERT was
\* attempted and one row is in the table.
OneVehiclePerVinWitness ==
    /\ vehSeq >= 3
    /\ Cardinality({v \in vehicles : v.vin = VinA}) = 1

\* C19: no submit fails because a concurrent submit for the same unseen VIN
\* created the vehicle row first: the conflict is retried and the request
\* goes on with the existing row.
FirstSightingConflictRetried ==
    \A p \in profile.workers :
        pc[p] = "done" => result[p].error # "unhandled_exception"

\* C20: whatever was interrupted, with no request in flight every
\* submission row in the store is there with all the writes of its
\* contribution: its hash, its detail row, its odometer reading when it
\* carries an odometer value, and its submission_created audit entry.
NoneOrAllWrites ==
    Quiescent =>
        \A r \in submissions :
            /\ r.integrity_hash # None
            /\ \E d \in details : d.submission_id = r.id
            /\ CarriedKm(r) # {} => \E o \in readings : o.submission_id = r.id
            /\ \E a \in audit : /\ a.action = "submission_created"
                                /\ a.target_id = r.id

\* C21: every committed submission carries one timestamp: the submitted_at
\* of the row, the submitted_at of its data_snapshot and the ts of its hash
\* payload are equal.
SingleTimestamp ==
    \A r \in submissions :
        r.integrity_hash # None =>
            /\ r.data_snapshot.submitted_at = Some(r.submitted_at)
            /\ r.integrity_hash[4] = r.data_snapshot.submitted_at

\* C22: a committed submission stays in the store exactly as it was
\* committed, whatever the service does next (submit, batch, CSV import,
\* verify, lookup, stats), and a new row never takes the id of an old one.
AppendOnly ==
    [][/\ \A r \in submissions : r \in submissions'
       /\ \A r \in submissions' \ submissions :
             \A o \in submissions : o.id # r.id]_vars

\* A lookup has answered for a VIN with two committed submissions, one of
\* them brought in by a batch.
AppendOnlyWitness ==
    /\ Cardinality(submissions) >= 2
    /\ \E b \in batches : b.status = "completed" /\ b.success_count >= 1
    /\ \E p \in profile.workers :
          /\ result[p].report # None
          /\ result[p].report[1].kind = "lookup"
          /\ result[p].report[1].code = 200

\* Worker p answers a verification request in this step.
VerifyAnswers(p) ==
    /\ pc'[p] = "done"
    /\ <<pc[p], result[p]>> # <<pc'[p], result'[p]>>
    /\ result'[p].report # None
    /\ result'[p].report[1].kind \in {"verify", "verify_one"}

\* The hashed row r is among the broken links as a hash_mismatch.
ReportedMismatch(answer, r) ==
    /\ answer.code = 200
    /\ \E i \in 1..Len(answer.body.broken_links) :
          answer.body.broken_links[i] = [id |-> r.id, error |-> "hash_mismatch"]

\* C23: verifyAll and verifyOne leave every table as it was, tampered or
\* not, and verifyAll reports each scanned row whose hash cannot be
\* recomputed from what is stored.
VerifyReadOnlyAndComplete ==
    [][\A p \in profile.workers :
          VerifyAnswers(p) =>
              /\ UNCHANGED <<submissions, details, readings, vehicles, audit,
                             batches, seq, odoSeq, vehSeq, audSeq, batchSeq>>
              /\ result'[p].report[1].kind = "verify" =>
                    \A r \in Hashed :
                        (\/ ~IsDict(r.data_snapshot)
                         \/ Recomputed(r) # r.integrity_hash)
                            => ReportedMismatch(result'[p].report[1], r)]_vars

\* Worker p, the writer of batch b, makes its final update in this step.
FinalUpdateOf(p, b) ==
    /\ pc[p] = "row"
    /\ ctx[p].batch.active
    /\ ctx[p].batch.id = b.id
    /\ ctx[p].batch.i > Len(ctx[p].batch.request.rows)
    /\ pc'[p] = "done"

\* C24: a batch row appears with status processing and zero counts; it
\* changes only once, from processing to completed or failed, in the final
\* update of its writer; completed or failed, it stays as it is.
BatchStatusOnce ==
    [][/\ \A n \in batches' :
             (\A b \in batches : b.id # n.id) =>
                 /\ n.status = "processing"
                 /\ n.processed = 0 /\ n.success_count = 0 /\ n.error_count = 0
       /\ \A b \in batches :
             \E n \in batches' :
                 /\ n.id = b.id
                 /\ \/ n = b
                    \/ /\ b.status = "processing"
                       /\ n.status \in {"completed", "failed"}
                       /\ \E p \in profile.workers : FinalUpdateOf(p, b)]_vars

\* A batch was completed, and a submission with a later id was committed
\* after it.
BatchStatusOnceWitness ==
    \E b \in batches :
        /\ b.status = "completed"
        /\ b.submission_ids # None
        /\ \E r \in submissions :
              \A i \in 1..Len(b.submission_ids[1]) : r.id > b.submission_ids[1][i]

\* Reading n was stored with the rollback sentence naming prior km.
FlaggedAsRollback(n, km) ==
    /\ n.fraud_flag
    /\ Len(n.fraud_reason) >= 3
    /\ SubSeq(n.fraud_reason, 1, 3) = <<"Rollback suspect", n.odometer_km, km>>

\* Reading o has the date of reading n, a smaller id and a higher km.
SameDayHigherBefore(o, n) ==
    /\ o.vin = n.vin
    /\ o.reading_date = n.reading_date
    /\ o.id < n.id
    /\ o.odometer_km > n.odometer_km

\* C25: a reading with a lower km than an already recorded reading of the
\* same VIN with the same reading_date and a smaller id is not flagged as a
\* rollback.
SameDayTieNotFlagged ==
    \A n \in readings : \A o \in readings :
        SameDayHigherBefore(o, n) =>
            \A km \in {b.odometer_km : b \in readings} : ~FlaggedAsRollback(n, km)

\* C25 as the code has it: when that same-day reading is the latest prior
\* reading by (reading_date descending, id descending), the new reading is
\* flagged as a rollback against it.
SameDayTieFlagged ==
    \A n \in readings : \A o \in PriorReading(n) :
        SameDayHigherBefore(o, n) => FlaggedAsRollback(n, o.odometer_km)

SameDayTieWitness ==
    \E n \in readings : \E o \in PriorReading(n) : SameDayHigherBefore(o, n)

\* Worker p takes a batch request in this step: it answers it at once or
\* goes on to create the batch row.
TakesBatch(p) ==
    /\ pc[p] \in {"idle", "done"}
    /\ pc'[p] \in {"done", "batch_create"}
    /\ ctx'[p].req.kind \in {"batch", "csv"}
    /\ <<pc[p], ctx[p], result[p]>> # <<pc'[p], ctx'[p], result'[p]>>

\* The envelopes the endpoints refuse: a CSV upload without file, over
\* 2 MiB, without rows, with more than 500 rows or without vin column; a
\* JSON batch without body, without records or with more than 100 records.
RefusedEnvelope(kind, envelope, rows) ==
    IF kind = "csv"
    THEN \/ ~envelope.present
         \/ envelope.bytes > 2 * 1024 * 1024
         \/ Len(rows) = 0
         \/ Len(rows) > 500
         \/ ~envelope.header
    ELSE \/ ~envelope.present
         \/ Len(rows) = 0
         \/ Len(rows) > 100

\* C26: a batch refused at the envelope is answered with an input error and
\* leaves the store as it was; any other batch, a CSV of exactly 500 rows
\* and a JSON batch of exactly 100 records included, is accepted.
EnvelopeRejectionWritesNothing ==
    [][\A p \in profile.workers :
          TakesBatch(p) =>
              IF RefusedEnvelope(ctx'[p].req.kind, ctx'[p].envelope, ctx'[p].req.rows)
              THEN /\ pc'[p] = "done"
                   /\ result'[p].status = "error"
                   /\ result'[p].error \in {"no_file", "file_too_large", "empty_batch",
                                            "too_many_rows", "no_vin_column", "no_body"}
                   /\ UNCHANGED <<submissions, details, readings, vehicles, audit,
                                  batches, seq, odoSeq, vehSeq, audSeq, batchSeq>>
              ELSE /\ pc'[p] = "batch_create"
                   /\ result'[p] = NoResult]_vars

\* A batch of exactly the limit was completed, and a batch of one more was
\* refused after it, with the store holding rows.
EnvelopeWitness ==
    /\ \E b \in batches : b.status = "completed"
                          /\ b.total_rows \in {MaxCsvRows, MaxBatchRecords}
    /\ \E p \in profile.workers :
          /\ result[p].error = "too_many_rows"
          /\ Len(ctx[p].req.rows) \in {MaxCsvRows + 1, MaxBatchRecords + 1}

\* Worker p answers a verifyAll or a lookup in this step.
ReadAnswers(p) ==
    /\ pc'[p] = "done"
    /\ <<pc[p], result[p]>> # <<pc'[p], result'[p]>>
    /\ result'[p].report # None
    /\ result'[p].report[1].kind \in {"verify", "lookup"}
    /\ result'[p].report[1].code = 200

\* The submission rows an answer was computed from, and the detail rows the
\* reader found for them.
Observed(answer) == IF answer.kind = "verify" THEN answer.scanned ELSE answer.subs

ObservedDetails(answer) == IF answer.kind = "verify" THEN details ELSE answer.records

\* A submit is between its first statement and its response.
InFlight(p) == pc[p] \notin {"idle", "done", "row", "batch_create",
                             "lookup_details", "lookup_odometer"}

\* The submit of worker q takes its next step.
SubmitStep(q) == NextService /\ <<pc[q], ctx[q]>> # <<pc'[q], ctx'[q]>>

\* C27: a verifyAll or lookup running beside in-flight submits observes only
\* submission rows with their integrity_hash set and their detail row
\* present, and changes nothing: neither the store nor the progress of the
\* other worker.
ReadersSeeCommittedRows ==
    [][\A p \in profile.workers :
          ReadAnswers(p) =>
              /\ \A r \in Observed(result'[p].report[1]) :
                    /\ r.integrity_hash # None
                    /\ \E d \in ObservedDetails(result'[p].report[1]) :
                          /\ d.submission_id = r.id
                          /\ d.table = DetailTable(r.report_type)
              /\ UNCHANGED <<submissions, details, readings, vehicles, audit,
                             batches, seq, odoSeq, vehSeq, audSeq, batchSeq>>
              /\ \A q \in profile.workers \ {p} :
                    /\ <<pc[q], ctx[q], result[q]>> = <<pc'[q], ctx'[q], result'[q]>>
                    /\ InFlight(q) => ENABLED SubmitStep(q)]_vars

\* A lookup that observed a row answers while a submit is between its
\* INSERT and its commit.
ReadersWitness ==
    \E p \in profile.workers : \E q \in profile.workers :
        /\ result[p].report # None
        /\ result[p].report[1].kind = "lookup"
        /\ result[p].report[1].code = 200
        /\ result[p].report[1].subs # {}
        /\ pc[p] = "done"
        /\ pc[q] \in {"detail", "commit"}

\* The answer reports error at the row with this id.
Reports(answer, id, error) ==
    \E i \in 1..Len(answer.body.broken_links) :
        answer.body.broken_links[i] = [id |-> id, error |-> error]

\* C28: on any store, tampered or not, whose rows verifyAll can read, it
\* scans the hashed submissions in ascending id order, reports chain_break
\* at a row exactly when its previous_hash differs from the running expected
\* one (null for the first scanned row, else the stored hash of the row
\* scanned before it), hash_mismatch exactly when the recomputed hash
\* differs from the stored one, and valid exactly when it reports nothing.
VerifyAllReportsExactly ==
    LET answer == VerifyAllResponse(submissions)
        rows == OrderById(Hashed)
    IN  answer.code = 200 =>
            /\ answer.body.chain_length = Len(rows)
            /\ \A i \in 1..Len(rows) :
                  /\ Reports(answer, rows[i].id, "chain_break") <=>
                        rows[i].previous_hash #
                            (IF i = 1 THEN None ELSE rows[i - 1].integrity_hash)
                  /\ Reports(answer, rows[i].id, "hash_mismatch") <=>
                        Recomputed(rows[i]) # rows[i].integrity_hash
            /\ answer.body.valid <=> answer.body.broken_links = <<>>

\* The committed rows that have a hash and the greatest id among them.
Tip == {r \in Hashed : \A s \in Hashed : s.id <= r.id}

\* C29: the previous_hash a new submission is given is the integrity_hash of
\* the committed submission with the greatest id among those that have a
\* hash, or null without any; rows without hash are ignored as tip and by
\* verifyAll, so that the chain begins at the first row that has a hash.
TipIgnoresPreChainRows ==
    /\ \A p \in profile.workers :
          pc[p] \in {"insert", "detail", "commit"} =>
              IF Tip = {} THEN ctx[p].previous_hash = None
              ELSE \A t \in Tip : ctx[p].previous_hash = t.integrity_hash
    /\ \A r \in Hashed : Predecessor(r) = {} => r.previous_hash = None
    /\ VerifyAllResponse(submissions) =
          [code |-> 200,
           body |-> [valid |-> TRUE, chain_length |-> Cardinality(Hashed),
                     broken_links |-> <<>>]]

\* Two hashed submissions were committed after a row without hash, and a
\* third one has read its tip.
TipWitness ==
    /\ \E l \in submissions \ Hashed : \A r \in Hashed : l.id < r.id
    /\ Cardinality(Hashed) >= 2
    /\ \E p \in profile.workers : pc[p] = "insert" /\ ctx[p].previous_hash # None

\* The ECU sentence of reading o, and its place in the stored reason.
EcuText(o) == <<"ECU mismatch", o.ecu_reading.v, o.odometer_km>>

EcuFlagged(o) ==
    /\ o.fraud_flag
    /\ Len(o.fraud_reason) >= 3
    /\ SubSeq(o.fraud_reason, Len(o.fraud_reason) - 2, Len(o.fraud_reason)) = EcuText(o)

\* C30: the ECU rule fires exactly when the reading has an ECU value that
\* differs from the declared km by more than 5000 (exactly 5000 does not
\* count); when the rollback rule fires too, the reading is flagged and its
\* reason is the rollback sentence followed by the ECU sentence.
EcuRuleExact ==
    \A o \in readings :
        /\ EcuFlagged(o) <=> (/\ o.ecu_reading.t # "none"
                              /\ Abs(o.ecu_reading.v - o.odometer_km) > 5000)
        /\ (EcuFlagged(o) /\ RollbackRule(o)) =>
              \E b \in PriorReading(o) :
                  o.fraud_reason =
                      <<"Rollback suspect", o.odometer_km, b.odometer_km>> \o EcuText(o)

\* The request carries no km to track: none at all, zero, or a negative one.
NoKm(data) ==
    /\ data.odometer_at_import.t = "none"
    /\ \/ data.odometer_km.t = "none"
       \/ data.odometer_km.t = "int" /\ data.odometer_km.v <= 0

\* The committed submission with this id, as it stands after its commit.
Parent(id) == {r \in submissions : r.id = id /\ r.integrity_hash # None}

\* C31: for a submission whose km is missing, zero or negative, odometer
\* tracking does nothing: from the commit to the response no reading is
\* inserted, none is changed, no fraud alert is written (the only audit entry
\* is submission_created), and the submission stays committed and answers
\* success.
TrackingNoOpWithoutKm ==
    [][\A p \in profile.workers :
          (pc[p] \in {"odometer", "track_insert", "return"} /\ NoKm(ctx[p].req.data)
              /\ <<pc[p], result[p]>> # <<pc'[p], result'[p]>>) =>
              /\ readings' = readings
              /\ odoSeq' = odoSeq
              /\ \A a \in audit' \ audit : a.action = "submission_created"
              /\ Parent(ctx[p].submission_id) # {}
              /\ Parent(ctx[p].submission_id) \subseteq submissions'
              /\ details' = details
              /\ pc'[p] \in {"return", "done"}
              /\ pc'[p] = "done" => /\ result'[p].status = "ok"
                                     /\ result'[p].submission_id = ctx[p].submission_id]_vars

\* A submission with a negative km has answered success, on a store that
\* holds a reading of the same VIN from an earlier submission.
TrackingNoOpWitness ==
    /\ \E r \in Hashed : r.data_snapshot.data.odometer_km = JInt(-5)
                         /\ \E o \in readings : o.vin = r.vin /\ o.submission_id < r.id
                         /\ \E p \in profile.workers :
                               /\ result[p].status = "ok"
                               /\ result[p].submission_id = r.id
    /\ readings # {}

\* The rules for the report type of a CSV row, in their order: explicit is
\* the report_type value, cells the other columns.
TypeByRules(explicit, cells) ==
    CASE explicit # "" -> explicit
      [] cells.severity # "" \/ cells.impact_point # "" \/ cells.airbag_deployed # ""
            -> "accident"
      [] cells.service_type # "" \/ (cells.facility_name # "" /\ cells.cost # "")
            -> "service"
      [] cells.previous_owner_type # "" \/ cells.new_owner_type # ""
            \/ cells.sale_price # "" -> "ownership"
      [] cells.result \in {"pass", "fail"} -> "inspection"
      [] cells.recall_number # "" -> "recall_completion"
      [] OTHER -> "service"

\* The rules on the values as they stand in the file.
TypeAsWritten(row) == TypeByRules(row.report_type, row.cells)

\* The rules on the trimmed values, an explicit report_type lowercased too.
TypeTrimmed(row) ==
    TypeByRules(StrLower(StrStrip(row.report_type)),
                [k \in DOMAIN row.cells |-> StrStrip(row.cells[k])])

\* The CSV imports that have been answered: the rows sent and the answer.
AnsweredImports ==
    {[rows |-> ctx[p].req.rows, answer |-> result[p].batch[1]] :
        p \in {q \in profile.workers : /\ result[q].batch # None
                                       /\ ctx[q].req.kind = "csv"}}

\* Every row of an answered import was given the type the operator Type
\* assigns: a row of a valid type is a success entry of that type and its
\* submission has that report_type, a row of another type is an error.
RowsTypedBy(Type(_)) ==
    \A imp \in AnsweredImports : \A i \in 1..Len(imp.rows) :
        IF Type(imp.rows[i]) \in valid_types
        THEN \E j \in 1..Len(imp.answer.results) :
                /\ imp.answer.results[j].index = i
                /\ imp.answer.results[j].type = Type(imp.rows[i])
                /\ \E r \in submissions :
                      /\ r.id = imp.answer.results[j].submission_id
                      /\ r.report_type = Type(imp.rows[i])
        ELSE \E j \in 1..Len(imp.answer.errors) :
                /\ imp.answer.errors[j].index = i
                /\ imp.answer.errors[j].error = "invalid_type"

\* C32: the report type of a CSV row is its explicit report_type value when
\* non-empty, otherwise the first rule that matches, in the fixed order
\* accident, service, ownership, inspection, recall_completion, service.
CsvTypeAsWritten == RowsTypedBy(TypeAsWritten)

\* C32 as the code has it: the same rules on the trimmed cell values, the
\* explicit report_type being lowercased as well.
CsvTypeTrimmed == RowsTypedBy(TypeTrimmed)

\* An import whose row has columns of two rules was answered, with the type
\* of the earlier rule.
CsvTypeWitness ==
    \E imp \in AnsweredImports :
        /\ imp.rows[1].report_type = ""
        /\ imp.rows[1].cells.severity = "x"
        /\ imp.rows[1].cells.service_type = "x"
        /\ Len(imp.answer.results) = 1
        /\ imp.answer.results[1].type = "accident"

\* The entries of a stored list column, NULL holding none.
Entries(column) == IF column = None THEN <<>> ELSE column[1]

\* The number of entries of a results or errors list that are about row i.
EntriesAbout(list, i) == Cardinality({j \in 1..Len(list) : list[j].index = i})

\* C33: once the final update of a batch is applied, its counts agree:
\* success_count + error_count = processed = total_rows, submission_ids has
\* success_count entries, and every input row, a CSV row without VIN
\* included, is counted once, as a success or as an error.
BatchCountsConsistent ==
    \A b \in batches :
        b.status = "completed" =>
            /\ b.success_count + b.error_count = b.processed
            /\ b.processed = b.total_rows
            /\ Len(Entries(b.submission_ids)) = b.success_count
            /\ Len(Entries(b.errors)) = b.error_count
            /\ \A i \in 1..Len(Entries(b.submission_ids)) :
                  \E r \in submissions : r.id = Entries(b.submission_ids)[i]
            /\ \A p \in profile.workers :
                  (result[p].batch # None /\ result[p].batch[1].id = b.id) =>
                      /\ Len(ctx[p].req.rows) = b.total_rows
                      /\ Len(result[p].batch[1].results) = b.success_count
                      /\ Len(result[p].batch[1].errors) = b.error_count
                      /\ \A i \in 1..b.total_rows :
                            EntriesAbout(result[p].batch[1].results, i)
                                + EntriesAbout(result[p].batch[1].errors, i) = 1

\* A completed CSV import of three rows with two successes and a row
\* without VIN.
BatchCountsWitness ==
    \E b \in batches :
        /\ b.status = "completed"
        /\ b.total_rows = 3
        /\ b.success_count = 2
        /\ \E j \in 1..Len(Entries(b.errors)) : Entries(b.errors)[j].error = "missing_vin"

\* C34: in every state, with concurrent and failed submits too, the
\* previous_hash of a committed submission is null or the integrity_hash of
\* a committed submission with a smaller id.
PreviousHashPointsBack ==
    \A r \in submissions :
        \/ r.previous_hash = None
        \/ \E s \in submissions : /\ s.id < r.id
                                  /\ s.integrity_hash # None
                                  /\ s.integrity_hash = r.previous_hash

\* A submission is chained to a committed one across the id of an attempt
\* of the other worker that failed after its INSERT.
PointsBackWitness ==
    \E r \in submissions : \E s \in submissions :
        /\ s.integrity_hash # None
        /\ r.previous_hash = s.integrity_hash
        /\ \E p \in profile.workers :
              /\ result[p].status = "error"
              /\ s.id < result[p].submission_id
              /\ result[p].submission_id < r.id

\* The damage done by Corrupt, as a set of at most one record.
Corrupted ==
    IF tampered # None /\ "how" \in DOMAIN tampered[1] THEN {tampered[1]} ELSE {}

\* The store with the row Corrupt damaged or deleted put back as it was.
Uncorrupted ==
    IF Corrupted = {} THEN submissions
    ELSE {r \in submissions : r.id # tampered[1].id} \cup {tampered[1].row}

DeletedMiddleReported ==
    \A c \in Corrupted :
        (/\ c.how = "delete"
         /\ c.row.integrity_hash # None
         /\ Predecessor(c.row) # {}
         /\ Successor(c.id) # {}
         /\ collecte_verify(Uncorrupted).valid) =>
            LET answer == VerifyAllResponse(submissions)
            IN  /\ answer.code = 200
                /\ ~answer.body.valid
                /\ \A s \in Successor(c.id) :
                      Reports(answer, s.id, "chain_break")

\* The middle one of three chained submissions deleted: the answer's only
\* entry is the chain_break at the third.
DeletedMiddleWitness ==
    \E c \in Corrupted :
        /\ c.how = "delete"
        /\ Predecessor(c.row) # {}
        /\ Successor(c.id) # {}
        /\ collecte_verify(Uncorrupted).valid
        /\ \E s \in Successor(c.id) :
              VerifyAllResponse(submissions).body.broken_links =
                  <<[id |-> s.id, error |-> "chain_break"]>>

\* C37: when two submits carrying odometer values for the same VIN run
\* concurrently, the reading inserted second (greater id, same or later
\* reading_date) is flagged as a rollback whenever its km is lower than the
\* km of the reading inserted first, as it would be had the two submits run
\* one after the other.
ConcurrentRollbackFlagged ==
    \A n \in readings : \A o \in PriorReading(n) :
        (/\ n.reading_date >= o.reading_date
         /\ n.odometer_km < o.odometer_km) =>
            FlaggedAsRollback(n, o.odometer_km)

\* C38: the single-submit endpoint and the per-row helper are equivalent:
\* applied to the same store with the same vin, report_type, submitter and
\* data (and the client address the batch loops pass on), both succeed or
\* both fail, and they leave the same submissions, details, hash chain,
\* odometer readings and audit entries.
SubmitAndHelperAgree ==
    \A body \in {r \in Requests : r.kind = "submit"} :
        LET a == collecte_submit(Store, body, "remote_addr")
            b == _process_single_submission(Store, body.vin, body.report_type,
                                            body.submitter, body.data,
                                            "remote_addr")
        IN  /\ (a.code = 200) <=> b.success
            /\ a.store.submissions = b.store.submissions
            /\ a.store.details = b.store.details
            /\ a.store.readings = b.store.readings
            /\ a.store.audit = b.store.audit
            /\ a.store = b.store

\* A store with a chained submission and a flagged reading, left by a
\* successful helper call given an untidy VIN, on which the endpoint and
\* the helper are compared for a request that succeeds and one that fails
\* after its commit.
SubmitAndHelperWitness ==
    /\ ctx["w1"].req.kind = "helper"
    /\ ctx["w1"].req.vin = VinUntidy
    /\ result["w1"].status = "ok"
    /\ \E r \in submissions : r.previous_hash # None
    /\ \E o \in readings : o.fraud_flag
    /\ \E body \in Requests :
          collecte_submit(Store, body, "remote_addr").code = 200
    /\ \E body \in Requests :
          LET a == collecte_submit(Store, body, "remote_addr")
          IN  a.code = 500 /\ a.store.submissions # submissions

====
